---- MODULE Spec2Model ----
(***************************************************************************)
(* The dashboard's stores, remote clients and the work item widget.        *)
(*                                                                         *)
(* Spec         the two local persisted list stores,                       *)
(*                TaskService      (src/src/app/services/task.service.ts)  *)
(*                CoworkerService  (src/src/app/services/coworker.service.ts) *)
(*              each keeps an ordered collection in a BehaviorSubject and  *)
(*              mirrors it to one localStorage key                         *)
(* SpecRemote   the remote clients AdoService, MicrosoftCalendarService    *)
(*              and GitHubAIService with the HTTP requests they issue      *)
(* SpecLoad     the multi-project load of AdoWorkItemsComponent            *)
(* SpecQueries  the queries of TaskService over a collection               *)
(*                                                                         *)
(* Every public method or callback is one action; the private helpers the  *)
(* methods call are operators.                                             *)
(*                                                                         *)
(* JavaScript values are tagged records [t, v]: t is the run-time type and *)
(* v a tuple holding the payload.  An object is a record of such values, a *)
(* property the object does not have reads as Undefined.  A JSON document  *)
(* is modelled by what JSON.parse makes of it.                             *)
(***************************************************************************)
EXTENDS Integers, Sequences, FiniteSets, TLC

VARIABLES
    tasksSubject,       \* TaskService.tasksSubject.value
    coworkersSubject,   \* CoworkerService.coworkersSubject.value
    localStorage,       \* the browser's localStorage, the keys the services use
    now,                \* Date.now(), in milliseconds
    store,              \* the store, client or widget this session exercises
    issued,             \* history: the ids assigned so far in the session
    pre,                \* history: collection and storage before the last operation
    last,               \* history: the last operation, its arguments and what it threw
    calls,              \* history: how many methods the session has called
    adoService,         \* AdoService: baseUrl, project and its three subjects
    calendarService,    \* MicrosoftCalendarService: accessToken and its subjects
    gitHubAIService,    \* GitHubAIService: token and its subjects
    http,               \* HttpClient: the requests of the last call, with their fate
    subscriber,         \* what the observable of the last call has delivered
    widget,             \* AdoWorkItemsComponent: its fields and pending callbacks
    zone,               \* the local time zone: the day its clocks change, and by how much
    summary,            \* AiPrioritySummaryComponent: its fields, its wait and its timer
    outlookCalendar,    \* OutlookCalendarComponent: selectedDate and what it shows
    chat,               \* GitHubAiChatComponent: messages, loading, error
    teams               \* MicrosoftTeamsService.accessTokenSubject.value and the token form

\* the remote clients and what they talk through
\* the zone and the components that use the stores and the clients
components == <<zone, summary, outlookCalendar, chat, teams>>

remote == <<adoService, calendarService, gitHubAIService, http, subscriber, widget,
            components>>

vars == <<tasksSubject, coworkersSubject, localStorage, now, store,
          issued, pre, last, calls, remote>>

----------------------------------------------------------------------------
(* Bounds *)

MaxTasks == 3
MaxCoworkers == 2
MaxTicks == 1
MaxRandom == 1
MaxColor == 1
MaxCalls == 3

(* The clock: a session starts at ClockStart and advances in steps of TickMs. *)
ClockStart == 1000
TickMs == 500

----------------------------------------------------------------------------
(* JavaScript values *)

Undefined == [t |-> "undefined", v |-> <<>>]
Null == [t |-> "null", v |-> <<>>]
Bool(b) == [t |-> "boolean", v |-> <<b>>]
Num(n) == [t |-> "number", v |-> <<n>>]
Str(s) == [t |-> "string", v |-> <<s>>]
DateOf(ms) == [t |-> "Date", v |-> <<ms>>]
InvalidDate == [t |-> "Date", v |-> <<>>]
\* what Date.prototype.toISOString writes for the instant ms
IsoString(ms) == [t |-> "string", v |-> <<"iso", ms>>]

\* ToBoolean
Truthy(x) ==
    CASE x.t = "undefined" -> FALSE
      [] x.t = "null" -> FALSE
      [] x.t = "boolean" -> x.v[1]
      [] x.t = "number" -> x.v[1] # 0
      [] OTHER -> TRUE

\* new Date(x)
NewDate(x) ==
    CASE x.t = "Date" -> x
      [] x.t = "null" -> DateOf(0)
      [] x.t = "number" -> DateOf(x.v[1])
      [] x.t = "string" /\ Len(x.v) = 2 /\ x.v[1] = "iso" -> DateOf(x.v[2])
      [] OTHER -> InvalidDate

\* JSON.stringify of one property value: a Date goes through toJSON (an invalid
\* one gives null), an undefined property is left out.
ToJson(x) ==
    CASE x.t = "Date" /\ x.v = <<>> -> Null
      [] x.t = "Date" -> IsoString(x.v[1])
      [] OTHER -> x

\* x || d
OrElse(x, d) == IF Truthy(x) THEN x ELSE d

----------------------------------------------------------------------------
(* JSON documents: the text handed to JSON.parse, by what it parses to *)

NoItem == [kind |-> "null", items |-> <<>>]          \* getItem of an absent key
Malformed == [kind |-> "malformed", items |-> <<>>]  \* JSON.parse throws
NonArray == [kind |-> "object", items |-> <<>>]      \* parses to a value that is no array
ArrayDoc(items) == [kind |-> "array", items |-> items]

\* JSON.stringify(collection): every property of every element through ToJson
StringifyObject(obj) == [f \in DOMAIN obj |-> ToJson(obj[f])]
Stringify(coll) == ArrayDoc([i \in DOMAIN coll |-> StringifyObject(coll[i])])

----------------------------------------------------------------------------
(* TaskService *)

TASKS_KEY == "tasks-data"
COWORKERS_KEY == "coworkers-data"

\* interface Task, the properties the store's logic reads or writes
\* (description, dueDate, priority and tags are carried along like title)
TaskFields == {"id", "title", "completed", "createdAt", "completedAt",
               "timeTracked", "isTimeRunning", "timeStartedAt"}

\* the object {} : no property at all
EmptyTaskObject == [f \in TaskFields |-> Undefined]

\* { ...obj, ...updates }: updates is a function on some of the property names
Spread(obj, updates) ==
    [f \in DOMAIN obj |-> IF f \in DOMAIN updates THEN updates[f] ELSE obj[f]]

\* What the store holds: the BehaviorSubject's value, the storage, and the
\* error the running method has thrown to its caller ("" when none).
StoreState(subject, ls) == [subject |-> subject, ls |-> ls, error |-> ""]

\* localStorage.setItem(key, text): throws when the quota is exceeded
SetItem(ls, key, text) == [ls EXCEPT ![key] = text]

\* saveTasks: write, then publish; a failed write is caught and logged, so
\* nothing is published and nothing reaches the caller
saveTasks(s, tasks, full) ==
    IF full THEN s
    ELSE [s EXCEPT !.ls = SetItem(s.ls, TASKS_KEY, Stringify(tasks)),
                   !.subject = tasks]

\* the forEach of loadTasks and importFromJson: dates back to Date objects
ReviveTask(task) ==
    [task EXCEPT !.createdAt = NewDate(task.createdAt),
                 !.completedAt = IF Truthy(task.completedAt)
                                 THEN NewDate(task.completedAt)
                                 ELSE task.completedAt]

\* loadTasks: the constructor's read of the storage
loadTasks(stored) ==
    CASE stored.kind = "null" -> <<>>
      [] stored.kind = "array" -> [k \in DOMAIN stored.items |-> ReviveTask(stored.items[k])]
      [] OTHER -> <<>>

\* Array.prototype.findIndex, 1-based, 0 when no element has the id
FindIndex(coll, id) ==
    IF \E i \in DOMAIN coll : coll[i].id = id
    THEN CHOOSE i \in DOMAIN coll :
            coll[i].id = id /\ \A j \in 1..(i - 1) : coll[j].id # id
    ELSE 0

\* generateId: `task_${Date.now()}_${random}`
generateId(ms, random) == [t |-> "string", v |-> <<"task_", ms, random>>]

addTask(s, title, ms, random, full) ==
    LET newTask == [EmptyTaskObject EXCEPT
                        !.id = generateId(ms, random),
                        !.title = title,
                        !.completed = Bool(FALSE),
                        !.createdAt = DateOf(ms)]
    IN  saveTasks(s, Append(s.subject, newTask), full)

updateTask(s, id, updates, full) ==
    LET Upd(task) == IF task.id = id THEN Spread(task, updates) ELSE task
    IN  saveTasks(s, [k \in DOMAIN s.subject |-> Upd(s.subject[k])], full)

toggleTaskCompletion(s, id, ms, full) ==
    LET Tog(task) ==
            IF task.id = id
            THEN LET completed == ~Truthy(task.completed)
                 IN  [task EXCEPT !.completed = Bool(completed),
                                  !.completedAt = IF completed THEN DateOf(ms)
                                                  ELSE Undefined]
            ELSE task
    IN  saveTasks(s, [k \in DOMAIN s.subject |-> Tog(s.subject[k])], full)

\* deleteTask with the filter's test turned round
deleteTaskKeepingMatch(s, id, full) ==
    LET Keep(task) == task.id = id
    IN  saveTasks(s, SelectSeq(s.subject, Keep), full)

deleteTask(s, id, full) ==
    LET Keep(task) == task.id # id
    IN  saveTasks(s, SelectSeq(s.subject, Keep), full)

deleteCompletedTasks(s, full) ==
    LET Keep(task) == ~Truthy(task.completed)
    IN  saveTasks(s, SelectSeq(s.subject, Keep), full)

clearAllTasks(s, full) == saveTasks(s, <<>>, full)

exportToJson(s) == Stringify(s.subject)

\* importFromJson: JSON.parse or forEach throwing is caught and rethrown as
\* 'Invalid JSON format'; whatever parses to an array of objects is saved
importFromJson(s, doc, full) ==
    IF doc.kind = "array"
    THEN saveTasks(s, [k \in DOMAIN doc.items |-> ReviveTask(doc.items[k])], full)
    ELSE [s EXCEPT !.error = "Invalid JSON format"]

stopTimeTracking(s, id, ms, full) ==
    LET i == FindIndex(s.subject, id)
    IN  IF i = 0 THEN s
        ELSE LET task == s.subject[i]
             IN  IF ~Truthy(task.isTimeRunning) \/ ~Truthy(task.timeStartedAt)
                 THEN s
                 ELSE LET sessionTime == (ms - task.timeStartedAt.v[1]) \div 1000
                          totalTime == OrElse(task.timeTracked, Num(0)).v[1]
                                          + sessionTime
                          Stop(t) == IF t.id = id
                                     THEN [t EXCEPT !.isTimeRunning = Bool(FALSE),
                                                    !.timeStartedAt = Undefined,
                                                    !.timeTracked = Num(totalTime)]
                                     ELSE t
                      IN  saveTasks(s, [k \in DOMAIN s.subject |-> Stop(s.subject[k])], full)

\* the forEach of startTimeTracking over the tasks that were running
RECURSIVE StopAll(_, _, _, _)
StopAll(s, running, ms, full) ==
    IF running = <<>> THEN s
    ELSE StopAll(stopTimeTracking(s, Head(running).id, ms, full),
                 Tail(running), ms, full)

startTimeTracking(s, id, ms, full) ==
    LET IsRunning(t) == Truthy(t.isTimeRunning)
        runningTasks == SelectSeq(s.subject, IsRunning)
        s1 == StopAll(s, runningTasks, ms, full)
        Start(task) == IF task.id = id
                       THEN [task EXCEPT !.isTimeRunning = Bool(TRUE),
                                         !.timeStartedAt = Num(ms),
                                         !.timeTracked = OrElse(task.timeTracked, Num(0))]
                       ELSE task
    IN  saveTasks(s1, [k \in DOMAIN s1.subject |-> Start(s1.subject[k])], full)

toggleTimeTracking(s, id, ms, full) ==
    LET i == FindIndex(s.subject, id)
    IN  IF i = 0 THEN s
        ELSE IF Truthy(s.subject[i].isTimeRunning)
             THEN stopTimeTracking(s, id, ms, full)
             ELSE startTimeTracking(s, id, ms, full)

resetTimeTracking(s, id, ms, full) ==
    LET i == FindIndex(s.subject, id)
    IN  IF i = 0 THEN s
        ELSE LET s1 == IF Truthy(s.subject[i].isTimeRunning)
                       THEN stopTimeTracking(s, id, ms, full)
                       ELSE s
                 Reset(t) == IF t.id = id
                             THEN [t EXCEPT !.timeTracked = Num(0),
                                            !.isTimeRunning = Bool(FALSE),
                                            !.timeStartedAt = Undefined]
                             ELSE t
             IN  saveTasks(s1, [k \in DOMAIN s1.subject |-> Reset(s1.subject[k])], full)

----------------------------------------------------------------------------
(* CoworkerService *)

\* interface Coworker, the properties the store's logic reads or writes
\* (role, location, timezone, email, photoUrl and teamsPresence are carried
\* along like name)
CoworkerFields == {"id", "name", "avatarColor"}

EmptyCoworkerObject == [f \in CoworkerFields |-> Undefined]

\* the palette of generateRandomColor
Colors == <<"#ef4444", "#f59e0b", "#10b981", "#3b82f6",
            "#8b5cf6", "#ec4899", "#06b6d4", "#84cc16">>

generateRandomColor(random) == Str(Colors[random + 1])

\* saveCoworkers: no try/catch, a failed write is thrown to the caller
saveCoworkers(s, coworkers, full) ==
    IF full THEN [s EXCEPT !.error = "QuotaExceededError"]
    ELSE [s EXCEPT !.ls = SetItem(s.ls, COWORKERS_KEY, Stringify(coworkers)),
                   !.subject = coworkers]

\* loadCoworkers: the constructor's read of the storage
loadCoworkers(stored) ==
    CASE stored.kind = "null" -> <<>>
      [] stored.kind = "array" -> stored.items
      [] stored.kind = "malformed" -> <<>>

addCoworker(s, coworker, ms, random, full) ==
    LET newCoworker ==
            [coworker EXCEPT !.id = Num(ms),
                             !.avatarColor = OrElse(coworker.avatarColor,
                                                    generateRandomColor(random))]
    IN  saveCoworkers(s, Append(s.subject, newCoworker), full)

\* updateCoworker assigns into the array getCoworkers() returned, which is the
\* BehaviorSubject's own value, and only then saves
updateCoworker(s, id, updates, full) ==
    LET index == FindIndex(s.subject, id)
    IN  IF index = 0 THEN s
        ELSE LET s1 == [s EXCEPT !.subject[index] = Spread(s.subject[index], updates)]
             IN  saveCoworkers(s1, s1.subject, full)

deleteCoworker(s, id, full) ==
    LET Keep(c) == c.id # id
    IN  saveCoworkers(s, SelectSeq(s.subject, Keep), full)

reorderCoworkers(s, coworkers, full) == saveCoworkers(s, coworkers, full)

exportCoworkersToJson(s) == Stringify(s.subject)

\* importFromJson: JSON.parse throwing, and saveCoworkers throwing inside the
\* try, are rethrown as 'Invalid JSON format'; a value that is no array is
\* dropped without a word
importCoworkersFromJson(s, doc, full) ==
    CASE doc.kind = "malformed" -> [s EXCEPT !.error = "Invalid JSON format"]
      [] doc.kind = "array" ->
            IF saveCoworkers(s, doc.items, full).error # ""
            THEN [s EXCEPT !.error = "Invalid JSON format"]
            ELSE saveCoworkers(s, doc.items, full)
      [] OTHER -> s

\* moveCoworkerUp / moveCoworkerDown of the component: a copy with the
\* elements at i and i + 1 swapped
Swapped(coll, i) ==
    [k \in 1..Len(coll) |-> IF k = i THEN coll[i + 1]
                            ELSE IF k = i + 1 THEN coll[i]
                            ELSE coll[k]]

----------------------------------------------------------------------------
(* Inputs *)

NoUpdates == [f \in {} |-> Undefined]

\* Partial<Task> arguments of updateTask
TaskUpdates == { [f \in {"title"} |-> Str("b")],
                 [f \in {"id"} |-> Str("x")],
                 [f \in {"createdAt"} |-> DateOf(0)],
                 [f \in {"isTimeRunning"} |-> Bool(TRUE)] }

\* Partial<Coworker> arguments of updateCoworker
CoworkerUpdates == { [f \in {"name"} |-> Str("b")],
                     [f \in {"id"} |-> Num(0)] }

\* an id no add has assigned
MissingTaskId == Str("none")
MissingCoworkerId == Num(1)

Ids(coll) == {coll[i].id : i \in DOMAIN coll}

TaskIdArgs == Ids(tasksSubject) \cup {MissingTaskId}
CoworkerIdArgs == Ids(coworkersSubject) \cup {MissingCoworkerId}

\* a task as a JSON file written by hand would hold it
TaskJson(name) ==
    [EmptyTaskObject EXCEPT !.id = Str(name), !.title = Str(name),
                            !.completed = Bool(FALSE),
                            !.createdAt = IsoString(ClockStart)]

\* the same with its timer running since the session's start
RunningTaskJson(name) ==
    [TaskJson(name) EXCEPT !.timeTracked = Num(0),
                           !.isTimeRunning = Bool(TRUE),
                           !.timeStartedAt = Num(ClockStart)]

\* a task list of such a file: a running task, one flagged running that
\* carries no start instant, and one never timed
HandWrittenTasks ==
    <<RunningTaskJson("x"),
      [TaskJson("y") EXCEPT !.isTimeRunning = Bool(TRUE)],
      TaskJson("z")>>

\* texts handed to TaskService.importFromJson: no JSON, JSON that is no
\* array, an array of objects that are no tasks, a task list, the store's export
TaskDocs(s) == { Malformed, NonArray, ArrayDoc(<<EmptyTaskObject>>),
                 ArrayDoc(HandWrittenTasks), exportToJson(s) }

\* texts handed to CoworkerService.importFromJson
CoworkerDocs(s) == { Malformed, NonArray, ArrayDoc(<<EmptyCoworkerObject>>),
                     exportCoworkersToJson(s) }

----------------------------------------------------------------------------
(* Remote clients: the services as their constructors leave them *)

\* an error message: its fixed text and the HTTP status it was made for (0: none)
Message(text, status) == [t |-> "string", v |-> <<text, status>>]

\* AdoService, fields of the class; baseUrl is modelled by the project it
\* addresses, a work item by its id
AdoConstructed ==
    [baseUrl |-> "", organization |-> "", project |-> "",
     workItems |-> <<>>, loading |-> FALSE, error |-> Null]

\* MicrosoftCalendarService after loadConfiguration found no token
CalendarConstructed ==
    [accessToken |-> "", events |-> <<>>, loading |-> FALSE, error |-> Null]

\* RateLimitInfo of a service that never called
NoRateLimit ==
    [callsUsed |-> Num(0), callsRemaining |-> Null, callsLimit |-> Null,
     resetTime |-> Null]

\* GitHubAIService after loadConfiguration and loadRateLimitInfo found nothing
GitHubAIConstructed ==
    [personalAccessToken |-> "", rateLimit |-> NoRateLimit,
     loading |-> FALSE, error |-> Null]

\* an observable nobody has subscribed to
NotSubscribed == [state |-> "idle", value |-> <<>>, error |-> Null]

\* AdoWorkItemsComponent, fields of the class, no load running
WidgetConstructed ==
    [workItems |-> <<>>, loading |-> FALSE, error |-> Null,
     projects |-> <<>>, loads |-> {}]

\* a zone whose clocks never change
NoClockChange == [day |-> 0, shift |-> 0]

\* AiPrioritySummaryComponent before ngOnInit: nothing subscribed, no timer
SummaryConstructed ==
    [waitingForData |-> TRUE, loading |-> FALSE, error |-> Null,
     wait |-> "none", debounce |-> 0, timer |-> "none", due |-> 0,
     destroyed |-> FALSE, generated |-> 0]

\* OutlookCalendarComponent, fields of the class; a date is its day number
OutlookCalendarConstructed ==
    [selectedDate |-> 0, events |-> <<>>, isConfigured |-> FALSE,
     subscribed |-> FALSE]

\* GitHubAiChatComponent, fields of the class
ChatConstructed ==
    [messages |-> <<>>, loading |-> FALSE, error |-> Null,
     isConfigured |-> FALSE, subscribed |-> FALSE, sends |-> 0]

\* MicrosoftTeamsService after loadToken found no token, and the empty form
\* originals: the originalToken each testMyPresence still holds, by request
TeamsConstructed ==
    [accessToken |-> Null, teamsAccessToken |-> "", originals |-> <<>>]

\* the zone and the components as the stores and clients find them
OthersConstructed ==
    /\ zone = NoClockChange
    /\ summary = SummaryConstructed
    /\ outlookCalendar = OutlookCalendarConstructed
    /\ chat = ChatConstructed
    /\ teams = TeamsConstructed

----------------------------------------------------------------------------
(* The state machine *)

TaskStore == StoreState(tasksSubject, localStorage)
CoworkerStore == StoreState(coworkersSubject, localStorage)

Snapshot == [tasks |-> tasksSubject, coworkers |-> coworkersSubject,
             ls |-> localStorage, issued |-> issued]

\* full: the storage's quota is exceeded while the call runs, setItem throws
Op(name, id, updates, doc, full) ==
    [op |-> name, id |-> id, updates |-> updates, doc |-> doc,
     at |-> now, full |-> full, error |-> "", newId |-> Undefined]

Init ==
    /\ localStorage = [k \in {TASKS_KEY, COWORKERS_KEY} |-> NoItem]
    /\ tasksSubject = loadTasks(localStorage[TASKS_KEY])
    /\ coworkersSubject = loadCoworkers(localStorage[COWORKERS_KEY])
    /\ now = ClockStart
    /\ store \in {TASKS_KEY, COWORKERS_KEY}
    /\ issued = {}
    /\ pre = Snapshot
    /\ last = Op("constructor", Undefined, NoUpdates, NoItem, FALSE)
    /\ calls = 0
    /\ adoService = AdoConstructed
    /\ calendarService = CalendarConstructed
    /\ gitHubAIService = GitHubAIConstructed
    /\ http = <<>>
    /\ subscriber = NotSubscribed
    /\ widget = WidgetConstructed
    /\ OthersConstructed

\* what every TaskService method leaves behind
TaskDone(s, op) ==
    /\ calls < MaxCalls
    /\ calls' = calls + 1
    /\ tasksSubject' = s.subject
    /\ localStorage' = s.ls
    /\ pre' = Snapshot
    /\ last' = [op EXCEPT !.error = s.error]
    /\ UNCHANGED <<coworkersSubject, now, store, remote>>

\* what every CoworkerService method leaves behind
CoworkerDone(s, op) ==
    /\ calls < MaxCalls
    /\ calls' = calls + 1
    /\ coworkersSubject' = s.subject
    /\ localStorage' = s.ls
    /\ pre' = Snapshot
    /\ last' = [op EXCEPT !.error = s.error]
    /\ UNCHANGED <<tasksSubject, now, store, remote>>

AddTask ==
    /\ store = TASKS_KEY
    /\ Len(tasksSubject) < MaxTasks
    /\ \E random \in 0..MaxRandom, full \in BOOLEAN :
          /\ TaskDone(addTask(TaskStore, Str("a"), now, random, full),
                      [Op("addTask", Undefined, NoUpdates, NoItem, full)
                          EXCEPT !.newId = generateId(now, random)])
          /\ issued' = issued \cup {generateId(now, random)}

UpdateTask ==
    /\ store = TASKS_KEY
    /\ \E id \in TaskIdArgs, updates \in TaskUpdates, full \in BOOLEAN :
          TaskDone(updateTask(TaskStore, id, updates, full),
                   Op("updateTask", id, updates, NoItem, full))
    /\ UNCHANGED issued

ToggleTaskCompletion ==
    /\ store = TASKS_KEY
    /\ \E id \in TaskIdArgs, full \in BOOLEAN :
          TaskDone(toggleTaskCompletion(TaskStore, id, now, full),
                   Op("toggleTaskCompletion", id, NoUpdates, NoItem, full))
    /\ UNCHANGED issued

DeleteTask ==
    /\ store = TASKS_KEY
    /\ \E id \in TaskIdArgs, full \in BOOLEAN :
          TaskDone(deleteTask(TaskStore, id, full),
                   Op("deleteTask", id, NoUpdates, NoItem, full))
    /\ UNCHANGED issued

DeleteCompletedTasks ==
    /\ store = TASKS_KEY
    /\ \E full \in BOOLEAN :
          TaskDone(deleteCompletedTasks(TaskStore, full),
                   Op("deleteCompletedTasks", Undefined, NoUpdates, NoItem, full))
    /\ UNCHANGED issued

ClearAllTasks ==
    /\ store = TASKS_KEY
    /\ \E full \in BOOLEAN :
          TaskDone(clearAllTasks(TaskStore, full),
                   Op("clearAllTasks", Undefined, NoUpdates, NoItem, full))
    /\ UNCHANGED issued

ImportTasks ==
    /\ store = TASKS_KEY
    /\ \E doc \in TaskDocs(TaskStore), full \in BOOLEAN :
          TaskDone(importFromJson(TaskStore, doc, full),
                   Op("importFromJson", Undefined, NoUpdates, doc, full))
    /\ UNCHANGED issued

StartTimeTracking ==
    /\ store = TASKS_KEY
    /\ \E id \in TaskIdArgs, full \in BOOLEAN :
          TaskDone(startTimeTracking(TaskStore, id, now, full),
                   Op("startTimeTracking", id, NoUpdates, NoItem, full))
    /\ UNCHANGED issued

StopTimeTracking ==
    /\ store = TASKS_KEY
    /\ \E id \in TaskIdArgs, full \in BOOLEAN :
          TaskDone(stopTimeTracking(TaskStore, id, now, full),
                   Op("stopTimeTracking", id, NoUpdates, NoItem, full))
    /\ UNCHANGED issued

ToggleTimeTracking ==
    /\ store = TASKS_KEY
    /\ \E id \in TaskIdArgs, full \in BOOLEAN :
          TaskDone(toggleTimeTracking(TaskStore, id, now, full),
                   Op("toggleTimeTracking", id, NoUpdates, NoItem, full))
    /\ UNCHANGED issued

ResetTimeTracking ==
    /\ store = TASKS_KEY
    /\ \E id \in TaskIdArgs, full \in BOOLEAN :
          TaskDone(resetTimeTracking(TaskStore, id, now, full),
                   Op("resetTimeTracking", id, NoUpdates, NoItem, full))
    /\ UNCHANGED issued

AddCoworker ==
    /\ store = COWORKERS_KEY
    /\ Len(coworkersSubject) < MaxCoworkers
    /\ \E random \in 0..MaxColor, full \in BOOLEAN :
          CoworkerDone(addCoworker(CoworkerStore,
                                   [EmptyCoworkerObject EXCEPT !.name = Str("a")],
                                   now, random, full),
                       [Op("addCoworker", Undefined, NoUpdates, NoItem, full)
                           EXCEPT !.newId = Num(now)])
    /\ issued' = issued \cup {Num(now)}

UpdateCoworker ==
    /\ store = COWORKERS_KEY
    /\ \E id \in CoworkerIdArgs, updates \in CoworkerUpdates, full \in BOOLEAN :
          CoworkerDone(updateCoworker(CoworkerStore, id, updates, full),
                       Op("updateCoworker", id, updates, NoItem, full))
    /\ UNCHANGED issued

DeleteCoworker ==
    /\ store = COWORKERS_KEY
    /\ \E id \in CoworkerIdArgs, full \in BOOLEAN :
          CoworkerDone(deleteCoworker(CoworkerStore, id, full),
                       Op("deleteCoworker", id, NoUpdates, NoItem, full))
    /\ UNCHANGED issued

ReorderCoworkers ==
    /\ store = COWORKERS_KEY
    /\ \E i \in 1..(Len(coworkersSubject) - 1), full \in BOOLEAN :
          CoworkerDone(reorderCoworkers(CoworkerStore, Swapped(coworkersSubject, i),
                                        full),
                       Op("reorderCoworkers", Undefined, NoUpdates, NoItem, full))
    /\ UNCHANGED issued

ImportCoworkers ==
    /\ store = COWORKERS_KEY
    /\ \E doc \in CoworkerDocs(CoworkerStore), full \in BOOLEAN :
          CoworkerDone(importCoworkersFromJson(CoworkerStore, doc, full),
                       Op("importFromJson", Undefined, NoUpdates, doc, full))
    /\ UNCHANGED issued

\* time passes
Tick ==
    /\ now < ClockStart + MaxTicks * TickMs
    /\ now' = now + TickMs
    /\ UNCHANGED <<tasksSubject, coworkersSubject, localStorage,
                   store, issued, pre, last, calls, remote>>

Next ==
    \/ AddTask \/ UpdateTask \/ ToggleTaskCompletion \/ DeleteTask
    \/ DeleteCompletedTasks \/ ClearAllTasks \/ ImportTasks
    \/ StartTimeTracking \/ StopTimeTracking \/ ToggleTimeTracking
    \/ ResetTimeTracking
    \/ AddCoworker \/ UpdateCoworker \/ DeleteCoworker \/ ReorderCoworkers
    \/ ImportCoworkers
    \/ Tick

Spec == Init /\ [][Next]_vars

----------------------------------------------------------------------------
(* Vocabulary of the properties *)

\* the collection of the store under exercise, now and before the last call
Coll == IF store = TASKS_KEY THEN tasksSubject ELSE coworkersSubject
PreColl == IF store = TASKS_KEY THEN pre.tasks ELSE pre.coworkers
StoreKey == store

\* the last call wrote the storage without an exception
WriteWorked == ~last.full

IsRunning(task) == task.isTimeRunning = Bool(TRUE)
RunningIndexes(coll) == {i \in DOMAIN coll : IsRunning(coll[i])}
IndexesOf(coll, id) == {i \in DOMAIN coll : coll[i].id = id}

\* the stored blob as a collection text; a key never written holds no item
Durable(key) == IF localStorage[key] = NoItem THEN ArrayDoc(<<>>)
                ELSE localStorage[key]

\* whole seconds from start to end
WholeSeconds(start, end) == (end - start) \div 1000

----------------------------------------------------------------------------
(* C1 *)

\* C1: after any sequence of TaskService operations at most one task has
\* isTimeRunning = true.
C1_AtMostOneRunning == Cardinality(RunningIndexes(tasksSubject)) <= 1

(* C2 *)

\* C2: once a mutating operation of either store has returned, whether or not
\* the session's writes succeeded, the collection in memory is the collection
\* stored under the store's key.
C2_MemoryEqualsDurable ==
    (last.op # "constructor" /\ last.error = "") =>
        /\ Stringify(tasksSubject) = Durable(TASKS_KEY)
        /\ Stringify(coworkersSubject) = Durable(COWORKERS_KEY)

(* C3 *)

\* C3: the id an add assigns differs from every id in the store and from every
\* id assigned earlier in the session, also at an unchanged clock.
C3_FreshId ==
    last.op \in {"addTask", "addCoworker"} =>
        /\ last.newId \notin pre.issued
        /\ last.newId \notin Ids(PreColl)

(* C4 *)

\* the one plain field an update of the last call set, and its value
PlainUpdate ==
    /\ last.op \in {"updateTask", "updateCoworker"}
    /\ DOMAIN last.updates \in {{"title"}, {"name"}}

\* C4: an update of one plain field of an id the store holds, its write done,
\* leaves exactly one item with that id, with the field set and its other
\* fields as before, and every other item and the order as before.
C4_UpdateOneItem ==
    (PlainUpdate /\ WriteWorked /\ last.id \in Ids(PreColl)) =>
        /\ Cardinality(IndexesOf(Coll, last.id)) = 1
        /\ Len(Coll) = Len(PreColl)
        /\ \A i \in DOMAIN Coll :
              IF i \in IndexesOf(Coll, last.id)
              THEN \A f \in DOMAIN Coll[i] :
                      Coll[i][f] = IF f \in DOMAIN last.updates
                                   THEN last.updates[f] ELSE PreColl[i][f]
              ELSE Coll[i] = PreColl[i]

(* C5 *)

\* C5: whatever partial fields an update is given, the item keeps its id and
\* its creation timestamp.
C5_UpdateKeepsIdentity ==
    (last.op \in {"updateTask", "updateCoworker"} /\ Len(Coll) = Len(PreColl)) =>
        \A i \in IndexesOf(PreColl, last.id) :
            /\ Coll[i].id = PreColl[i].id
            /\ store = TASKS_KEY => Coll[i].createdAt = PreColl[i].createdAt

(* C6 *)

IsDelete == last.op \in {"deleteTask", "deleteCoworker"}

\* what is left of coll once every item with the id is taken out, in order
Without(coll, id) ==
    LET Other(item) == item.id # id
    IN  SelectSeq(coll, Other)

IsItemList(doc) ==
    /\ doc.kind = "array"
    /\ \A i \in DOMAIN doc.items : doc.items[i].id # Undefined

\* C7: importFromJson of a text that is no well-formed item list reports
\* 'Invalid JSON format' and leaves collection and storage as they were.
C7_ImportRejectsMalformed ==
    (last.op = "importFromJson" /\ ~IsItemList(last.doc)) =>
        /\ last.error = "Invalid JSON format"
        /\ Coll = PreColl
        /\ localStorage = pre.ls

(* C8 *)

EmptyStore == StoreState(<<>>, [k \in {TASKS_KEY, COWORKERS_KEY} |-> NoItem])

\* C8: the export of every reachable collection, imported into an empty store
\* of the same kind, gives an equal collection.
C8_RoundTrip ==
    /\ importFromJson(EmptyStore, exportToJson(TaskStore), FALSE).subject
          = tasksSubject
    /\ importCoworkersFromJson(EmptyStore, exportCoworkersToJson(CoworkerStore),
                               FALSE).subject
          = coworkersSubject

(* C9 *)

\* the task as stopTimeTracking is to leave it, stopped at instant at
Stopped(task, at) ==
    IF task.timeStartedAt.t = "number"
    THEN [task EXCEPT !.isTimeRunning = Bool(FALSE),
                      !.timeStartedAt = Undefined,
                      !.timeTracked =
                          Num((IF task.timeTracked.t = "number"
                               THEN task.timeTracked.v[1] ELSE 0)
                              + WholeSeconds(task.timeStartedAt.v[1], at))]
    ELSE Undefined

\* startTimeTracking(B) was called, its write done, B a task and another task
\* running
StartedWhileOtherRunning ==
    /\ last.op = "startTimeTracking" /\ WriteWorked
    /\ last.id \in Ids(pre.tasks)
    /\ \E i \in RunningIndexes(pre.tasks) : pre.tasks[i].id # last.id

\* C9: startTimeTracking(B) with another task A running stops A (flag off,
\* timeTracked up by the whole seconds since A.timeStartedAt) and sets B
\* running from now; B is then the only running task.
C9_StartStopsOther ==
    StartedWhileOtherRunning =>
        /\ Len(tasksSubject) = Len(pre.tasks)
        /\ \A i \in RunningIndexes(pre.tasks) :
              pre.tasks[i].id # last.id =>
                  tasksSubject[i] = Stopped(pre.tasks[i], last.at)
        /\ \A i \in IndexesOf(tasksSubject, last.id) :
              /\ IsRunning(tasksSubject[i])
              /\ tasksSubject[i].timeStartedAt = Num(last.at)
        /\ RunningIndexes(tasksSubject) = IndexesOf(tasksSubject, last.id)

(* C10 *)

\* C10: stopTimeTracking(id), its write done, on a running task adds the whole
\* seconds since timeStartedAt to timeTracked, clears timeStartedAt and the
\* flag and leaves every other task alone; on a task that is not running, or
\* on no task, it changes nothing.
C10_StopAccumulates ==
    (last.op = "stopTimeTracking" /\ WriteWorked) =>
        LET i == FindIndex(pre.tasks, last.id)
        IN  IF i # 0 /\ IsRunning(pre.tasks[i])
            THEN tasksSubject = [pre.tasks EXCEPT ![i] = Stopped(pre.tasks[i], last.at)]
            ELSE tasksSubject = pre.tasks

----------------------------------------------------------------------------
(* Remote clients: HttpClient and observables *)

MaxIds == 450

\* AdoService.queryWorkItems: const batchSize = 200
batchSize == 200

\* HTTP failure statuses a server answers with
Statuses == {400, 401, 403, 404, 500}

\* a request handed to HttpClient: what it asks for, the ids in its url, its
\* fate (inflight, answered, failed, cancelled), the body or status that came
\* back, and the place of its answer among the answers
Request(kind, ids) ==
    [kind |-> kind, ids |-> ids, state |-> "inflight", result |-> <<>>,
     status |-> 0, arrival |-> 0]

Inflight(h) == {k \in DOMAIN h : h[k].state = "inflight"}
Arrivals(h) == Cardinality({k \in DOMAIN h : h[k].arrival > 0})

\* the response to request k arrives: a body, or a failure status
Answer(h, k, result) ==
    [h EXCEPT ![k].state = "answered", ![k].result = result,
              ![k].arrival = Arrivals(h) + 1]
Fail(h, k, status) ==
    [h EXCEPT ![k].state = "failed", ![k].status = status,
              ![k].arrival = Arrivals(h) + 1]

\* what an observable delivers to its subscriber
Pending == [state |-> "pending", value |-> <<>>, error |-> Null]
Delivered(value) == [state |-> "next", value |-> value, error |-> Null]
Errored(error) == [state |-> "error", value |-> <<>>, error |-> error]

\* the HttpErrorResponse of a failure status
HttpErrorResponse(status) == Message("Http failure response", status)

\* a service with the requests it has issued and its caller's subscription
World(svc) == [svc |-> svc, http |-> http, sub |-> subscriber]

\* the same at the start of a call: the call has issued nothing yet
Fresh(w) == [w EXCEPT !.http = <<>>, !.sub = NotSubscribed]

Min(a, b) == IF a < b THEN a ELSE b
Reverse(s) == [i \in DOMAIN s |-> s[Len(s) + 1 - i]]

----------------------------------------------------------------------------
(* AdoService *)

initialize(w, organization, project) ==
    [w EXCEPT !.svc.organization = organization, !.svc.project = project,
              !.svc.baseUrl = project]

isInitialized(svc) == svc.organization # "" /\ svc.project # ""

getProjects(w) ==
    [w EXCEPT !.http = Append(@, Request("projects", <<>>)), !.sub = Pending]

queryWorkItems(w) ==
    IF w.svc.baseUrl = ""
    THEN [w EXCEPT !.svc.error = Message("Service not initialized", 0),
                   !.sub = Delivered(<<>>)]
    ELSE [w EXCEPT !.svc.loading = TRUE, !.svc.error = Null,
                   !.http = Append(@, Request("wiql", <<>>)),
                   !.sub = Pending]

getWorkItem(w, id) ==
    [w EXCEPT !.http = Append(@, Request("workitem", <<id>>)), !.sub = Pending]

fetchProjectSprints(w) ==
    IF ~isInitialized(w.svc) THEN [w EXCEPT !.sub = Delivered(<<>>)]
    ELSE [w EXCEPT !.http = Append(@, Request("iterations", <<>>)),
                   !.sub = Pending]

\* the for loop of queryWorkItems: allIds.slice(i, i + batchSize) for
\* i = 0, batchSize, 2 * batchSize, ... below allIds.length
Batches(allIds) ==
    [b \in 1..((Len(allIds) + batchSize - 1) \div batchSize) |->
        SubSeq(allIds, (b - 1) * batchSize + 1,
               Min(b * batchSize, Len(allIds)))]

\* the query of the fetch that is running, and the reads it has issued
LastWiql(h) ==
    LET W == {k \in DOMAIN h : h[k].kind = "wiql"}
    IN  IF W = {} THEN 0 ELSE CHOOSE k \in W : \A j \in W : j <= k
Chunks(h) == {k \in DOMAIN h : h[k].kind = "workitems" /\ k > LastWiql(h)}
Batched(h) == LastWiql(h) > 0 /\ Len(h[LastWiql(h)].result) > batchSize

\* the bodies of the reads ks joined in the order the responses arrived
RECURSIVE FlatByArrival(_, _)
FlatByArrival(h, ks) ==
    IF ks = {} THEN <<>>
    ELSE LET k == CHOOSE x \in ks : \A y \in ks : h[x].arrival <= h[y].arrival
         IN  h[k].result \o FlatByArrival(h, ks \ {k})

\* results.flat() of the array forkJoin emits: one entry per source, in the
\* order of the sources
RECURSIVE Flat(_, _)
Flat(h, ks) ==
    IF ks = {} THEN <<>>
    ELSE LET k == CHOOSE x \in ks : \A y \in ks : x <= y
         IN  h[k].result \o Flat(h, ks \ {k})

\* catchError of queryWorkItems
queryFailed(w, status) ==
    LET message == Message("Failed to query work items", status)
        w1 == [w EXCEPT !.svc.loading = FALSE, !.svc.error = message]
    IN  IF status \in {400, 401, 404}
        THEN [w1 EXCEPT !.sub = Delivered(<<>>)]
        ELSE [w1 EXCEPT !.sub = Errored(HttpErrorResponse(status))]

\* switchMap of queryWorkItems: the answer to the WIQL query has arrived
wiqlAnswered(w, k, allIds) ==
    LET w1 == [w EXCEPT !.http = Answer(@, k, allIds)]
        batches == Batches(allIds)
    IN  IF Len(allIds) = 0
        THEN [w1 EXCEPT !.svc.workItems = <<>>, !.svc.loading = FALSE,
                        !.sub = Delivered(<<>>)]
        ELSE IF Len(allIds) > batchSize
        THEN [w1 EXCEPT !.http = @ \o [b \in DOMAIN batches |->
                                          Request("workitems", batches[b])]]
        ELSE [w1 EXCEPT !.http = Append(@, Request("workitems", allIds))]

wiqlFailed(w, k, status) ==
    queryFailed([w EXCEPT !.http = Fail(@, k, status)], status)

\* map of getWorkItemsByIds, then forkJoin and its map when the fetch is
\* batched: forkJoin emits once every source has emitted
workItemsAnswered(w, k, items) ==
    LET w1 == [w EXCEPT !.http = Answer(@, k, items)]
        all == Flat(w1.http, Chunks(w1.http))
    IN  IF ~Batched(w1.http) THEN [w1 EXCEPT !.sub = Delivered(items)]
        ELSE IF \E c \in Chunks(w1.http) : w1.http[c].state # "answered"
        THEN w1
        ELSE [w1 EXCEPT !.svc.workItems = all, !.svc.loading = FALSE,
                        !.sub = Delivered(all)]

\* a failing read that lets the reads already answered through to the subject
workItemsFailedPublishing(w, k, status) ==
    LET h1 == Fail(w.http, k, status)
        answered == {c \in Chunks(h1) : h1[c].state = "answered"}
    IN  queryFailed([w EXCEPT !.http = h1,
                              !.svc.workItems = Flat(h1, answered)], status)

\* catchError of getWorkItemsByIds; the error it rethrows ends forkJoin, which
\* unsubscribes from the other reads, and reaches catchError of queryWorkItems
workItemsFailed(w, k, status) ==
    LET h1 == Fail(w.http, k, status)
        h2 == [c \in DOMAIN h1 |->
                  IF c \in Chunks(h1) /\ h1[c].state = "inflight"
                  THEN [h1[c] EXCEPT !.state = "cancelled"] ELSE h1[c]]
        w1 == [w EXCEPT !.http = h2, !.svc.loading = FALSE,
                        !.svc.error = Message("Failed to fetch work items", status)]
    IN  queryFailed(w1, status)

\* the answers to getProjects, getWorkItem and fetchProjectSprints
probeAnswered(w, k, value) ==
    [w EXCEPT !.http = Answer(@, k, value), !.sub = Delivered(value)]

probeFailed(w, k, status) ==
    LET w1 == [w EXCEPT !.http = Fail(@, k, status)]
    IN  CASE w.http[k].kind = "projects" ->
               [w1 EXCEPT !.svc.error = Message("Failed to fetch projects", status),
                          !.sub = Errored(HttpErrorResponse(status))]
          [] w.http[k].kind = "workitem" ->
               [w1 EXCEPT !.svc.error = Message("Failed to fetch work item", status),
                          !.sub = Errored(HttpErrorResponse(status))]
          [] OTHER -> [w1 EXCEPT !.sub = Delivered(<<>>)]

----------------------------------------------------------------------------
(* MicrosoftCalendarService *)

calendarInitialize(w, accessToken) == [w EXCEPT !.svc.accessToken = accessToken]

getEventsForDate(w) ==
    IF w.svc.accessToken = ""
    THEN [w EXCEPT !.svc.error = Message("No access token configured", 0),
                   !.sub = Delivered(<<>>)]
    ELSE [w EXCEPT !.svc.loading = TRUE, !.svc.error = Null,
                   !.http = Append(@, Request("calendarview", <<>>)),
                   !.sub = Pending]

eventsAnswered(w, k, events) ==
    [w EXCEPT !.http = Answer(@, k, events), !.svc.events = events,
              !.svc.loading = FALSE, !.sub = Delivered(events)]

eventsFailed(w, k, status) ==
    [w EXCEPT !.http = Fail(@, k, status),
              !.svc.error = Message("Failed to load calendar", status),
              !.svc.loading = FALSE, !.sub = Delivered(<<>>)]

----------------------------------------------------------------------------
(* GitHubAIService *)

RATE_LIMIT_KEY == "github-ai-rate-limit"

MaxHeader == 7

\* the text of a header that carries the number n, and parseInt(text, 10)
DecimalString(n) == [t |-> "string", v |-> <<"dec", n>>]
parseInt(text) == Num(text.v[2])

\* HttpHeaders.get gives null for a header the response does not carry
HeaderValues == {Null, DecimalString(0), DecimalString(MaxHeader)}
Headers == [remaining : HeaderValues, limit : HeaderValues, reset : HeaderValues]
NoHeaders == [remaining |-> Null, limit |-> Null, reset |-> Null]

\* JSON.stringify(info) as localStorage holds it
ObjectDoc(obj) == [kind |-> "object", items |-> <<StringifyObject(obj)>>]

aiInitialize(w, token) == [w EXCEPT !.svc.personalAccessToken = token]

\* saveRateLimitInfo: write, then publish; a setItem that throws leaves the
\* subject alone and throws on
saveRateLimitInfo(w, info, full) ==
    IF full THEN [w EXCEPT !.thrown = Message("QuotaExceededError", 0)]
    ELSE [w EXCEPT !.ls = SetItem(w.ls, RATE_LIMIT_KEY, ObjectDoc(info)),
                   !.svc.rateLimit = info]

\* the record updateRateLimitFromHeaders builds, with an exhausted
\* callsRemaining kept also after a success
updatedKeepingZero(current, headers, isSuccess) ==
    [callsUsed |-> Num(current.callsUsed.v[1] + 1),
     callsRemaining |->
         IF Truthy(headers.remaining) THEN parseInt(headers.remaining)
         ELSE current.callsRemaining,
     callsLimit |->
         IF Truthy(headers.limit) THEN parseInt(headers.limit)
         ELSE current.callsLimit,
     resetTime |->
         IF Truthy(headers.reset)
         THEN DateOf(parseInt(headers.reset).v[1] * 1000)
         ELSE current.resetTime]

\* the record updateRateLimitFromHeaders builds
updated(current, headers, isSuccess) ==
    [callsUsed |-> Num(current.callsUsed.v[1] + 1),
     callsRemaining |->
         IF Truthy(headers.remaining) THEN parseInt(headers.remaining)
         ELSE IF isSuccess /\ current.callsRemaining = Num(0) THEN Null
         ELSE current.callsRemaining,
     callsLimit |->
         IF Truthy(headers.limit) THEN parseInt(headers.limit)
         ELSE current.callsLimit,
     resetTime |->
         IF Truthy(headers.reset)
         THEN DateOf(parseInt(headers.reset).v[1] * 1000)
         ELSE current.resetTime]

updateRateLimitFromHeaders(w, headers, isSuccess, full) ==
    saveRateLimitInfo(w, updated(w.svc.rateLimit, headers, isSuccess), full)

\* a GitHubAIService with storage, requests, subscription and the exception
\* a callback has thrown (Null when none)
AIWorld ==
    [svc |-> gitHubAIService, http |-> http, sub |-> subscriber,
     ls |-> localStorage, thrown |-> Null]

sendMessage(w) ==
    IF w.svc.personalAccessToken = ""
    THEN [w EXCEPT !.sub = Errored(Message("GitHub AI service not configured", 0))]
    ELSE [w EXCEPT !.svc.loading = TRUE, !.svc.error = Null,
                   !.http = Append(@, Request("chat", <<>>)),
                   !.sub = Pending]

\* catchError of sendMessage for an error that is no 429
chatError(w, message) ==
    [w EXCEPT !.svc.loading = FALSE, !.svc.error = message,
              !.sub = Errored(message), !.thrown = Null]

\* tap and map of sendMessage: a 2xx response has arrived
chatAnswered(w, k, headers, hasChoices, full) ==
    LET w1 == [w EXCEPT !.http = Answer(@, k, <<>>)]
        w2 == updateRateLimitFromHeaders(w1, headers, TRUE, full)
    IN  IF w2.thrown # Null THEN chatError(w2, w2.thrown)
        ELSE IF hasChoices
        THEN [w2 EXCEPT !.svc.loading = FALSE, !.sub = Delivered(<<"content">>)]
        ELSE chatError(w2, Message("No response from AI model", 0))

\* catchError of sendMessage: the response carries a failure status; an
\* exception of the handler itself reaches the subscriber as it is
chatFailed(w, k, status, headers, full) ==
    LET w1 == [w EXCEPT !.http = Fail(@, k, status), !.svc.loading = FALSE]
        current == w1.svc.rateLimit
        w2 == saveRateLimitInfo(w1,
                  [current EXCEPT !.callsRemaining = Num(0),
                                  !.callsLimit = OrElse(current.callsLimit, Num(15))],
                  full)
        w3 == updateRateLimitFromHeaders(w2, headers, FALSE, full)
    IN  IF status # 429
        THEN chatError(w1, Message("Failed to get AI response", status))
        ELSE IF w2.thrown # Null
        THEN [w2 EXCEPT !.sub = Errored(w2.thrown), !.thrown = Null]
        ELSE chatError(w3, Message("Rate limit exceeded", status))

----------------------------------------------------------------------------
(* The remote clients as a state machine.  A session exercises one client;  *)
(* it calls a method when no request of an earlier call is still in flight. *)

ADO == "ado"
CALENDAR == "calendar"
GITHUB_AI == "github-ai"

RemoteSnapshot ==
    [ado |-> adoService, calendar |-> calendarService, ai |-> gitHubAIService,
     http |-> http, ls |-> localStorage, sub |-> subscriber]

\* whether the client under exercise has been configured
Configured ==
    CASE store = ADO -> adoService.baseUrl # ""
      [] store = CALENDAR -> calendarService.accessToken # ""
      [] OTHER -> gitHubAIService.personalAccessToken # ""

\* a method call, or the arrival of the answer to request k
\* (before: the work items AdoService published when the call was made)
Call(name) ==
    [op |-> name, configured |-> Configured, k |-> 0, status |-> 0,
     headers |-> NoHeaders, full |-> FALSE, before |-> adoService.workItems]
Arrival(name, k, status) ==
    [Call(name) EXCEPT !.k = k, !.status = status, !.before = last.before]

InitRemote ==
    /\ store \in {ADO, CALENDAR, GITHUB_AI}
    /\ localStorage = [k \in {RATE_LIMIT_KEY} |-> NoItem]
    /\ tasksSubject = <<>>
    /\ coworkersSubject = <<>>
    /\ now = ClockStart
    /\ issued = {}
    /\ adoService = AdoConstructed
    /\ calendarService = CalendarConstructed
    /\ gitHubAIService = GitHubAIConstructed
    /\ http = <<>>
    /\ subscriber = NotSubscribed
    /\ widget = WidgetConstructed
    /\ OthersConstructed
    /\ pre = RemoteSnapshot
    /\ last = [op |-> "constructor", configured |-> FALSE, k |-> 0, status |-> 0,
               headers |-> NoHeaders, full |-> FALSE, before |-> <<>>]
    /\ calls = 0

Called == calls < MaxCalls /\ Inflight(http) = {} /\ calls' = calls + 1

AdoDone(w, op) ==
    /\ adoService' = w.svc
    /\ http' = w.http
    /\ subscriber' = w.sub
    /\ pre' = RemoteSnapshot
    /\ last' = op
    /\ UNCHANGED <<tasksSubject, coworkersSubject, localStorage, now, store,
                   issued, calendarService, gitHubAIService, widget, components>>

CalendarDone(w, op) ==
    /\ calendarService' = w.svc
    /\ http' = w.http
    /\ subscriber' = w.sub
    /\ pre' = RemoteSnapshot
    /\ last' = op
    /\ UNCHANGED <<tasksSubject, coworkersSubject, localStorage, now, store,
                   issued, adoService, gitHubAIService, widget, components>>

GitHubAIDone(w, op) ==
    /\ gitHubAIService' = w.svc
    /\ http' = w.http
    /\ subscriber' = w.sub
    /\ localStorage' = w.ls
    /\ pre' = RemoteSnapshot
    /\ last' = op
    /\ UNCHANGED <<tasksSubject, coworkersSubject, now, store,
                   issued, adoService, calendarService, widget, components>>

IdList(n) == [i \in 1..n |-> i]

\* the ids a WIQL query answers with, in the order of the query
QueryResults ==
    LET counts == {0, 1, batchSize, batchSize + 1, MaxIds}
    IN  {IdList(n) : n \in counts} \cup {Reverse(IdList(n)) : n \in counts}

AdoInitialize ==
    /\ store = ADO /\ Called
    /\ AdoDone(initialize(Fresh(World(adoService)), "org", "project"), Call("initialize"))

GetProjects ==
    /\ store = ADO /\ Called
    /\ AdoDone(getProjects(Fresh(World(adoService))), Call("getProjects"))

QueryWorkItems ==
    /\ store = ADO /\ Called
    /\ AdoDone(queryWorkItems(Fresh(World(adoService))), Call("queryWorkItems"))

GetWorkItem ==
    /\ store = ADO /\ Called
    /\ AdoDone(getWorkItem(Fresh(World(adoService)), 1), Call("getWorkItem"))

FetchProjectSprints ==
    /\ store = ADO /\ Called
    /\ AdoDone(fetchProjectSprints(Fresh(World(adoService))), Call("fetchProjectSprints"))

WiqlResponse ==
    /\ store = ADO /\ UNCHANGED calls
    /\ \E k \in Inflight(http) :
          /\ http[k].kind = "wiql"
          /\ \/ \E allIds \in QueryResults :
                   AdoDone(wiqlAnswered(World(adoService), k, allIds),
                           Arrival("wiql", k, 0))
             \/ \E status \in Statuses :
                   AdoDone(wiqlFailed(World(adoService), k, status),
                           Arrival("wiql", k, status))

WorkItemsResponse ==
    /\ store = ADO /\ UNCHANGED calls
    /\ \E k \in Inflight(http) :
          /\ http[k].kind = "workitems"
          /\ \/ \E items \in {http[k].ids, Reverse(http[k].ids)} :
                   AdoDone(workItemsAnswered(World(adoService), k, items),
                           Arrival("workitems", k, 0))
             \/ \E status \in Statuses :
                   AdoDone(workItemsFailed(World(adoService), k, status),
                           Arrival("workitems", k, status))

ProbeResponse ==
    /\ store = ADO /\ UNCHANGED calls
    /\ \E k \in Inflight(http) :
          /\ http[k].kind \in {"projects", "workitem", "iterations"}
          /\ \/ AdoDone(probeAnswered(World(adoService), k, <<1>>),
                        Arrival(http[k].kind, k, 0))
             \/ \E status \in Statuses :
                   AdoDone(probeFailed(World(adoService), k, status),
                           Arrival(http[k].kind, k, status))

CalendarInitialize ==
    /\ store = CALENDAR /\ Called
    /\ CalendarDone(calendarInitialize(Fresh(World(calendarService)), "token"),
                    Call("initialize"))

GetEventsForDate ==
    /\ store = CALENDAR /\ Called
    /\ CalendarDone(getEventsForDate(Fresh(World(calendarService))),
                    Call("getEventsForDate"))

CalendarResponse ==
    /\ store = CALENDAR /\ UNCHANGED calls
    /\ \E k \in Inflight(http) :
          \/ \E events \in {<<>>, <<1>>, <<1, 2>>} :
                CalendarDone(eventsAnswered(World(calendarService), k, events),
                             Arrival("calendarview", k, 0))
          \/ \E status \in Statuses :
                CalendarDone(eventsFailed(World(calendarService), k, status),
                             Arrival("calendarview", k, status))

AIInitialize ==
    /\ store = GITHUB_AI /\ Called
    /\ GitHubAIDone(aiInitialize(Fresh(AIWorld), "token"), Call("initialize"))

SendMessage ==
    /\ store = GITHUB_AI /\ Called
    /\ GitHubAIDone(sendMessage(Fresh(AIWorld)), Call("sendMessage"))

ChatResponse ==
    /\ store = GITHUB_AI /\ UNCHANGED calls
    /\ \E k \in Inflight(http), headers \in Headers, full \in BOOLEAN :
          \/ \E hasChoices \in BOOLEAN :
                GitHubAIDone(chatAnswered(AIWorld, k, headers, hasChoices, full),
                             [Arrival("chat", k, 200) EXCEPT
                                 !.headers = headers, !.full = full])
          \/ \E status \in {401, 403, 429, 500} :
                GitHubAIDone(chatFailed(AIWorld, k, status, headers, full),
                             [Arrival("chat", k, status) EXCEPT
                                 !.headers = headers, !.full = full])

NextRemote ==
    \/ AdoInitialize \/ GetProjects \/ QueryWorkItems \/ GetWorkItem
    \/ FetchProjectSprints
    \/ WiqlResponse \/ WorkItemsResponse \/ ProbeResponse
    \/ CalendarInitialize \/ GetEventsForDate \/ CalendarResponse
    \/ AIInitialize \/ SendMessage \/ ChatResponse

SpecRemote == InitRemote /\ [][NextRemote]_vars

----------------------------------------------------------------------------
(* Vocabulary of the properties of the remote clients *)

\* the error channel (error$) of the client under exercise
ErrorChannel ==
    CASE store = ADO -> adoService.error
      [] store = CALENDAR -> calendarService.error
      [] OTHER -> gitHubAIService.error

FetchOps == {"getProjects", "queryWorkItems", "getWorkItem",
             "fetchProjectSprints", "getEventsForDate", "sendMessage"}

NotConfiguredErrors ==
    {Message("Service not initialized", 0),
     Message("No access token configured", 0),
     Message("GitHub AI service not configured", 0)}

\* the bodies of the requests from..to of the log, joined in that order
RECURSIVE ConcatResults(_, _, _)
ConcatResults(h, from, to) ==
    IF from > to THEN <<>>
    ELSE h[from].result \o ConcatResults(h, from + 1, to)

FailedChunks == {c \in Chunks(http) : http[c].state = "failed"}

(* C11 *)

\* C11: a fetch operation called on a client that has not been configured
\* issues no HTTP request and yields a not-configured error, on the error
\* channel or to its subscriber.
C11_NotConfigured ==
    (last.op \in FetchOps /\ ~last.configured) =>
        /\ http = <<>>
        /\ \/ ErrorChannel \in NotConfiguredErrors
           \/ subscriber.error \in NotConfiguredErrors

(* C12 *)

\* C12: when a request of queryWorkItems or getEventsForDate is answered with
\* a failure status, a message for that status is on the error channel and the
\* observable has emitted the empty collection.
C12_FailureRecovered ==
    (last.op \in {"wiql", "workitems", "calendarview"} /\ last.status # 0) =>
        /\ ErrorChannel # Null
        /\ ErrorChannel.v[2] = last.status
        /\ subscriber = Delivered(<<>>)

(* C13 *)

\* C13: a query answered with n > 200 ids issues exactly ceil(n / 200) reads,
\* read number b (from 0) asking for the ids at positions 200 b ..
\* min(200 b + 199, n - 1) of the answer; once every read is answered the
\* collection published and emitted is the bodies joined in the order of the
\* reads, whatever the order of their arrival.
C13_Batching ==
    (store = ADO /\ Batched(http)) =>
        LET first == LastWiql(http) + 1
            allIds == http[LastWiql(http)].result
            n == Len(allIds)
        IN  /\ Cardinality(Chunks(http)) = (n + 199) \div 200
            /\ Chunks(http) = first..Len(http)
            /\ \A c \in Chunks(http) :
                  LET b == c - first
                      upto == Min(200 * b + 199, n - 1)
                  IN  http[c].ids = [i \in 1..(upto - 200 * b + 1) |->
                                        allIds[200 * b + i]]
            /\ (\A c \in Chunks(http) : http[c].state = "answered") =>
                  /\ adoService.workItems = ConcatResults(http, first, Len(http))
                  /\ subscriber = Delivered(adoService.workItems)

\* C13, witness: three reads of a query of 450 ids all answered, the last
\* read answered before the first
C13_Witness ==
    /\ store = ADO /\ Batched(http)
    /\ Len(http[LastWiql(http)].result) = 450
    /\ \A c \in Chunks(http) : http[c].state = "answered"
    /\ http[Len(http)].arrival < http[LastWiql(http) + 1].arrival
    /\ adoService.workItems # http[LastWiql(http)].result

(* C14 *)

\* C14: once a read of a batched fetch has failed, the fetch is over: no read
\* is in flight and no other has failed, the error channel reports that
\* failure, the subscriber has the empty collection or the error, and
\* workItems$ holds what it held before the fetch.
C14_ChunkFailureFatal ==
    (store = ADO /\ Batched(http) /\ FailedChunks # {}) =>
        /\ Cardinality(FailedChunks) = 1
        /\ \A c \in Chunks(http) : http[c].state # "inflight"
        /\ \A c \in FailedChunks :
              /\ adoService.error # Null
              /\ adoService.error.v[2] = http[c].status
              /\ subscriber \in {Delivered(<<>>),
                                 Errored(HttpErrorResponse(http[c].status))}
        /\ ~adoService.loading
        /\ adoService.workItems = last.before

\* C14, witness: a read fails after another read of the fetch was answered,
\* while a third was in flight
C14_Witness ==
    /\ store = ADO /\ Batched(http) /\ FailedChunks # {}
    /\ \E c \in Chunks(http) : http[c].state = "answered" /\ http[c].result # <<>>
    /\ \E c \in Chunks(http) : http[c].state = "cancelled"

(* C18 *)

\* a 2xx answer to a chat request has just been handled
ChatSucceeded == store = GITHUB_AI /\ last.op = "chat" /\ last.status = 200

\* the rate-limit record before and after the last answer
PreviousRateLimit == pre.ai.rateLimit
CurrentRateLimit == gitHubAIService.rateLimit

\* the number a header carries, or the previous value when it is absent
HeaderOr(header, previous) ==
    IF header # Null THEN Num(header.v[2]) ELSE previous

C19_ExhaustedAfter429 ==
    (store = GITHUB_AI /\ last.op = "chat" /\ last.status = 429
       /\ last.headers = NoHeaders /\ ~last.full) =>
        /\ CurrentRateLimit.callsRemaining = Num(0)
        /\ CurrentRateLimit.callsLimit =
              (IF PreviousRateLimit.callsLimit # Null
               THEN PreviousRateLimit.callsLimit ELSE Num(15))
        /\ localStorage[RATE_LIMIT_KEY] = ObjectDoc(CurrentRateLimit)

----------------------------------------------------------------------------
(* AdoWorkItemsComponent: the multi-project load.  The component and the    *)
(* AdoService it shares are one record [w, svc].  A project's fetch is the  *)
(* forkJoin of getMyWorkItems and fetchProjectSprints; it is in flight from *)
(* its subscription to the turn in which its last response is handled.     *)

MaxProjects == 2
MaxLoads == 2

WIDGET == "ado-work-items"

\* the work items a project's server may hold, by id
ProjectItems(project) ==
    {<<>>, <<10 * project + 1>>, <<10 * project + 1, 10 * project + 2>>}

\* projectWorkItems.map(item => ({...item, projectInfo: {...}}))
Tagged(items, project) ==
    [i \in DOMAIN items |-> [id |-> items[i], projectInfo |-> project]]

\* the component after ngOnInit has read 'ado-projects': every project enabled
WidgetConfigured ==
    [WidgetConstructed EXCEPT
        !.projects = [p \in 1..MaxProjects |-> [id |-> p, enabled |-> TRUE]]]

WidgetWorld == [w |-> widget, svc |-> adoService]

\* the subscriptions of ngOnInit to error$ and loading$
publishError(v, error) == [v EXCEPT !.svc.error = error, !.w.error = error]
publishLoading(v, loading) ==
    [v EXCEPT !.svc.loading = loading,
              !.w.loading = IF ~v.w.loading THEN loading ELSE v.w.loading]

\* toggleProject(index), without the load it ends with
toggleProject(v, index) ==
    [v EXCEPT !.w.projects[index].enabled = ~@]

\* applyFilters: shares the component's items through AdoService.setWorkItems
applyFilters(v) == [v EXCEPT !.svc.workItems = v.w.workItems]

\* a load that loadWorkItems has started: the enabled projects it was given,
\* the index it is at, and whether it waits for a fetch or for its timer
Chain(load, projects) ==
    [load |-> load, projects |-> projects, index |-> 0, phase |-> "starting"]

\* loadProjectsSequentially(projects, currentIndex) of the load chain
loadProjectsSequentially(v, chain, currentIndex) ==
    LET others == v.w.loads \ {chain}
    IN  IF currentIndex > Len(chain.projects)
        THEN [applyFilters(v) EXCEPT !.w.loading = FALSE, !.w.loads = others]
        ELSE LET project == chain.projects[currentIndex]
                 v1 == [v EXCEPT !.svc.organization = "org",
                                 !.svc.project = project,
                                 !.svc.baseUrl = project]
                 v2 == publishError(publishLoading(v1, TRUE), Null)
             IN  [v2 EXCEPT !.w.loads = others \cup
                     {[chain EXCEPT !.index = currentIndex,
                                    !.phase = "fetching"]}]

\* isConfigured as toggleProject leaves it: projects.some(p => p.enabled)
isConfigured(v) == \E i \in DOMAIN v.w.projects : v.w.projects[i].enabled

\* loadWorkItems of a component with isConfigured true (with isConfigured
\* false it shows the demonstration data instead); load numbers the call
loadWorkItems(v, load) ==
    LET v1 == [v EXCEPT !.w.loading = TRUE, !.w.error = Null,
                        !.w.workItems = <<>>]
        IsEnabled(p) == p.enabled
        enabled == SelectSeq(v.w.projects, IsEnabled)
        chain == Chain(load, [i \in DOMAIN enabled |-> enabled[i].id])
    IN  IF Len(enabled) = 0
        THEN [applyFilters(v1) EXCEPT !.w.loading = FALSE]
        ELSE loadProjectsSequentially(
                 [v1 EXCEPT !.w.loads = @ \cup {chain}], chain, 1)


\* next of the subscription in loadProjectsSequentially
projectLoaded(v, chain, items) ==
    LET project == chain.projects[chain.index]
        v1 == [v EXCEPT !.w.workItems = @ \o Tagged(items, project)]
    IN  [applyFilters(v1) EXCEPT !.w.loads = (@ \ {chain}) \cup
                                    {[chain EXCEPT !.phase = "waiting"]}]

\* error of the subscription in loadProjectsSequentially
projectFailed(v, chain, status) ==
    [v EXCEPT !.w.error = IF ~Truthy(@) THEN Message("Failed to load from", status)
                          ELSE @,
              !.w.loads = (@ \ {chain}) \cup {[chain EXCEPT !.phase = "waiting"]}]

\* the end of getMyWorkItems for a project with at most batchSize items, and
\* the handler of the component it reaches
fetchAnswered(v, chain, items) ==
    IF Len(items) = 0
    THEN projectLoaded(publishLoading([v EXCEPT !.svc.workItems = <<>>], FALSE),
                       chain, items)
    ELSE projectLoaded(v, chain, items)

fetchFailed(v, chain, status) ==
    LET v1 == publishError(publishLoading(v, FALSE),
                           Message("Failed to query work items", status))
    IN  IF status \in {400, 401, 404} THEN projectLoaded(v1, chain, <<>>)
        ELSE projectFailed(v1, chain, status)

\* history of the loads: how many were started, what the projects of the
\* last one answered, and which of them failed
Load(name, load) == [op |-> name, load |-> load, fetched |-> <<>>, failed |-> {}]

InitLoad ==
    /\ store = WIDGET
    /\ localStorage = [k \in {RATE_LIMIT_KEY} |-> NoItem]
    /\ tasksSubject = <<>>
    /\ coworkersSubject = <<>>
    /\ now = ClockStart
    /\ issued = {}
    /\ adoService = AdoConstructed
    /\ calendarService = CalendarConstructed
    /\ gitHubAIService = GitHubAIConstructed
    /\ http = <<>>
    /\ subscriber = NotSubscribed
    /\ widget = WidgetConfigured
    /\ OthersConstructed
    /\ pre = WidgetWorld
    /\ last = Load("ngOnInit", 0)
    /\ calls = 0

WidgetDone(v, op) ==
    /\ widget' = v.w
    /\ adoService' = v.svc
    /\ pre' = WidgetWorld
    /\ last' = op
    /\ UNCHANGED <<tasksSubject, coworkersSubject, localStorage, now, store,
                   issued, calendarService, gitHubAIService, http, subscriber,
                   components>>

\* refreshData, onViewChange, or the first load of ngOnInit
LoadWorkItems ==
    /\ store = WIDGET /\ calls < MaxLoads /\ calls' = calls + 1
    /\ WidgetDone(loadWorkItems(WidgetWorld, last.load + 1),
                  Load("loadWorkItems", last.load + 1))

\* toggleProject(index) that leaves a project enabled
ToggleProject ==
    /\ store = WIDGET /\ calls < MaxLoads /\ calls' = calls + 1
    /\ \E index \in DOMAIN widget.projects :
          /\ isConfigured(toggleProject(WidgetWorld, index))
          /\ WidgetDone(loadWorkItems(toggleProject(WidgetWorld, index), last.load + 1),
                     Load("toggleProject", last.load + 1))

\* what the history keeps of an answer: only answers of the last load count
Fetched(chain, items, failed) ==
    IF chain.load # last.load THEN [last EXCEPT !.op = "fetched"]
    ELSE [last EXCEPT !.op = "fetched",
                      !.fetched = Append(@, <<chain.projects[chain.index], items>>),
                      !.failed = @ \cup failed]

ProjectResponse ==
    /\ store = WIDGET /\ UNCHANGED calls
    /\ \E chain \in widget.loads :
          /\ chain.phase = "fetching"
          /\ \/ \E items \in ProjectItems(chain.projects[chain.index]) :
                   WidgetDone(fetchAnswered(WidgetWorld, chain, items),
                              Fetched(chain, items, {}))
             \/ \E status \in Statuses :
                   WidgetDone(fetchFailed(WidgetWorld, chain, status),
                              Fetched(chain, <<>>, {chain.projects[chain.index]}))

\* the callback of setTimeout(..., 100) in the handlers
NextProjectTimer ==
    /\ store = WIDGET /\ UNCHANGED calls
    /\ \E chain \in widget.loads :
          /\ chain.phase = "waiting"
          /\ WidgetDone(loadProjectsSequentially(WidgetWorld, chain, chain.index + 1),
                        [last EXCEPT !.op = "timer"])

NextLoad == LoadWorkItems \/ ToggleProject \/ ProjectResponse \/ NextProjectTimer

SpecLoad == InitLoad /\ [][NextLoad]_vars

----------------------------------------------------------------------------
(* Properties of the multi-project load *)

FetchesInFlight == {chain \in widget.loads : chain.phase = "fetching"}

\* a load was started, the component shows loading = false, no fetch is in flight
LoadFinished == last.load > 0 /\ ~widget.loading /\ FetchesInFlight = {}

EnabledProjects ==
    LET IsEnabled(p) == p.enabled
        enabled == SelectSeq(widget.projects, IsEnabled)
    IN  [i \in DOMAIN enabled |-> enabled[i].id]

\* what the last load fetched from a project
FetchedFrom(project) ==
    IF \E i \in DOMAIN last.fetched : last.fetched[i][1] = project
    THEN last.fetched[CHOOSE i \in DOMAIN last.fetched :
                          last.fetched[i][1] = project][2]
    ELSE <<>>

RECURSIVE ConcatFetched(_)
ConcatFetched(projects) ==
    IF Len(projects) = 0 THEN <<>>
    ELSE Tagged(FetchedFrom(Head(projects)), Head(projects))
             \o ConcatFetched(Tail(projects))

NoItemTwice(items) ==
    \A i, j \in DOMAIN items : items[i].id = items[j].id => i = j

\* C15: at most one project's fetch is in flight at any time, also when
\* loadWorkItems is triggered again while an earlier load is in progress.
C15_OneFetchInFlight == Cardinality(FetchesInFlight) <= 1

\* C16: whenever a load has finished, the component's items, and the items
\* shared through AdoService.setWorkItems, are the concatenation, in configured
\* order of the enabled projects, of what the most recent load fetched from
\* each project, each item tagged with its project, and no item is there twice.
C16_LoadedItems ==
    (store = WIDGET /\ LoadFinished) =>
        /\ widget.workItems = ConcatFetched(EnabledProjects)
        /\ adoService.workItems = widget.workItems
        /\ NoItemTwice(widget.workItems)

\* C17: a failing project does not end the load: once no load is running the
\* last load has fetched from every enabled project and loading is false, and
\* the component's error is non-null whenever one of its projects failed.
C17_FailureReported ==
    (store = WIDGET /\ last.load > 0 /\ widget.loads = {}) =>
        /\ \A i \in DOMAIN EnabledProjects :
              \E k \in DOMAIN last.fetched : last.fetched[k][1] = EnabledProjects[i]
        /\ ~widget.loading
        /\ (last.failed # {} => widget.error # Null)

----------------------------------------------------------------------------
(* TaskService: the queries over the collection.  They are pure functions  *)
(* of tasksSubject.value and the clock; a task is given by the properties  *)
(* they read.  Local time is taken with no offset from the clock.           *)

MaxQueried == 2
DayMs == 1000

QUERIES == "task-queries"

QueriedTask(id, dueDate, completed) ==
    [id |-> Num(id), dueDate |-> dueDate, completed |-> Bool(completed)]

\* the due dates a task can hold: none (never set, or null after a reload of
\* an invalid one), an invalid Date, and Dates around the clock's instants
DueDates ==
    {Undefined, Null, InvalidDate, DateOf(0)}
        \cup {DateOf(ClockStart + d) :
                d \in {0 - DayMs, 0 - 1, 0, 1, TickMs, TickMs + 1, DayMs}}

QueriedCollections ==
    UNION {{[i \in 1..n |-> QueriedTask(i, due[i], done[i])] :
               due \in [1..n -> DueDates], done \in [1..n -> BOOLEAN]} :
           n \in 0..MaxQueried}

\* a < b on two Dates: both through valueOf, NaN compares false
DateLess(a, b) == a.v # <<>> /\ b.v # <<>> /\ a.v[1] < b.v[1]

\* today.setHours(0, 0, 0, 0)
StartOfDay(clock) == clock - (clock % DayMs)

\* the mutation of getOverdueTasks: a task due at the very instant counts
getOverdueTasksInclusive(tasks, clock) ==
    LET nowDate == DateOf(clock)
        Overdue(task) ==
            IF ~Truthy(task.dueDate) \/ Truthy(task.completed) THEN FALSE
            ELSE ~DateLess(nowDate, NewDate(task.dueDate))
    IN  SelectSeq(tasks, Overdue)

getOverdueTasks(tasks, clock) ==
    LET nowDate == DateOf(clock)
        Overdue(task) ==
            IF ~Truthy(task.dueDate) \/ Truthy(task.completed) THEN FALSE
            ELSE DateLess(NewDate(task.dueDate), nowDate)
    IN  SelectSeq(tasks, Overdue)

getTasksDueToday(tasks, clock) ==
    LET today == DateOf(StartOfDay(clock))
        tomorrow == DateOf(StartOfDay(clock) + DayMs)
        DueToday(task) ==
            IF ~Truthy(task.dueDate) \/ Truthy(task.completed) THEN FALSE
            ELSE LET dueDate == NewDate(task.dueDate)
                 IN  /\ dueDate.v # <<>>
                     /\ ~DateLess(dueDate, today)
                     /\ DateLess(dueDate, tomorrow)
    IN  SelectSeq(tasks, DueToday)

getStatistics(tasks, clock) ==
    LET Completed(t) == Truthy(t.completed)
        NotCompleted(t) == ~Truthy(t.completed)
    IN  [total |-> Len(tasks),
         completed |-> Len(SelectSeq(tasks, Completed)),
         pending |-> Len(SelectSeq(tasks, NotCompleted)),
         overdue |-> Len(getOverdueTasks(tasks, clock)),
         dueToday |-> Len(getTasksDueToday(tasks, clock))]

\* history of the queries: the call, its instant and what it returned
Query(name, result) == [op |-> name, at |-> now, result |-> result]

InitQueries ==
    /\ store = QUERIES
    /\ tasksSubject \in QueriedCollections
    /\ coworkersSubject = <<>>
    /\ localStorage = [k \in {TASKS_KEY} |-> NoItem]
    /\ now = ClockStart
    /\ issued = {}
    /\ adoService = AdoConstructed
    /\ calendarService = CalendarConstructed
    /\ gitHubAIService = GitHubAIConstructed
    /\ http = <<>>
    /\ subscriber = NotSubscribed
    /\ widget = WidgetConstructed
    /\ OthersConstructed
    /\ pre = tasksSubject
    /\ last = Query("constructor", <<>>)
    /\ calls = 0

Queried(op) ==
    /\ last' = op
    /\ pre' = tasksSubject
    /\ UNCHANGED <<tasksSubject, coworkersSubject, localStorage, now, store,
                   issued, calls, remote>>

GetOverdueTasks ==
    /\ store = QUERIES
    /\ Queried(Query("getOverdueTasks", getOverdueTasks(tasksSubject, now)))

GetTasksDueToday ==
    /\ store = QUERIES
    /\ Queried(Query("getTasksDueToday", getTasksDueToday(tasksSubject, now)))

GetStatistics ==
    /\ store = QUERIES
    /\ Queried(Query("getStatistics", getStatistics(tasksSubject, now)))

NextQueries == GetOverdueTasks \/ GetTasksDueToday \/ GetStatistics \/ Tick

SpecQueries == InitQueries /\ [][NextQueries]_vars

\* the tasks of the collection due strictly before the instant and not completed
DueBefore(task, instant) ==
    /\ task.dueDate.t = "Date"
    /\ task.dueDate.v # <<>>
    /\ task.dueDate.v[1] < instant

OverdueAt(tasks, instant) ==
    LET Is(task) == DueBefore(task, instant) /\ task.completed = Bool(FALSE)
    IN  SelectSeq(tasks, Is)

\* C20: getOverdueTasks returns, and the overdue count of getStatistics counts,
\* exactly the tasks with a due date strictly before the instant of the call
\* and completed = false; the same task with completed = true is excluded.
C20_Overdue ==
    /\ (store = QUERIES /\ last.op = "getOverdueTasks") =>
          /\ last.result = OverdueAt(tasksSubject, last.at)
          /\ \A i \in DOMAIN last.result : last.result[i].completed # Bool(TRUE)
    /\ (store = QUERIES /\ last.op = "getStatistics") =>
          last.result.overdue = Len(OverdueAt(tasksSubject, last.at))

\* C20 (witness): getOverdueTasks was called on a collection that holds a task
\* due before the instant, the same due date on a completed task, or a task
\* due at the very instant; it returned the first one only.
C20_Witness ==
    /\ store = QUERIES /\ last.op = "getOverdueTasks"
    /\ Len(last.result) = 1
    /\ Len(tasksSubject) = 2
    /\ \E i, j \in DOMAIN tasksSubject :
          /\ i # j
          /\ tasksSubject[i] = last.result[1]
          /\ \/ /\ tasksSubject[j].dueDate = tasksSubject[i].dueDate
                /\ tasksSubject[j].completed = Bool(TRUE)
             \/ /\ tasksSubject[j].dueDate = DateOf(last.at)
                /\ tasksSubject[j].completed = Bool(FALSE)

\* the tasks of the collection due within the day of the instant
DueWithinDay(tasks, instant) ==
    LET Is(task) ==
            /\ task.dueDate.t = "Date"
            /\ task.dueDate.v # <<>>
            /\ task.dueDate.v[1] >= StartOfDay(instant)
            /\ task.dueDate.v[1] < StartOfDay(instant) + DayMs
    IN  SelectSeq(tasks, Is)

\* C21: getTasksDueToday returns, and the dueToday count of getStatistics
\* counts, exactly the tasks whose due date lies in [midnight today, midnight
\* tomorrow), whatever their completion status.
C21_DueToday ==
    /\ (store = QUERIES /\ last.op = "getTasksDueToday") =>
          last.result = DueWithinDay(tasksSubject, last.at)
    /\ (store = QUERIES /\ last.op = "getStatistics") =>
          last.result.dueToday = Len(DueWithinDay(tasksSubject, last.at))

----------------------------------------------------------------------------
(* C23, C24: the stores under a failing write, and what they publish *)

Mutations ==
    {"addTask", "updateTask", "toggleTaskCompletion", "deleteTask",
     "deleteCompletedTasks", "clearAllTasks", "importFromJson",
     "startTimeTracking", "stopTimeTracking", "toggleTimeTracking",
     "resetTimeTracking", "addCoworker", "updateCoworker", "deleteCoworker",
     "reorderCoworkers", "importCoworkersFromJson"}

\* C23: when localStorage.setItem throws during a mutation of either store,
\* no exception reaches the caller and the store's collection in memory is
\* the one from before the operation.
C23_WriteFailureRecovered ==
    (last.op \in Mutations /\ last.full) =>
        /\ last.error = ""
        /\ Coll = PreColl

\* the store as the last call found it
PreTaskStore == StoreState(pre.tasks, pre.ls)

\* the store after the first half of the last call, which stops the running
\* timers through stopTimeTracking: every stop saves, and so publishes
StopPhase ==
    LET Runs(t) == Truthy(t.isTimeRunning)
        i == FindIndex(pre.tasks, last.id)
    IN  CASE last.op = "startTimeTracking" ->
                StopAll(PreTaskStore, SelectSeq(pre.tasks, Runs), last.at, last.full)
          [] last.op = "resetTimeTracking" /\ i # 0 ->
                IF Truthy(pre.tasks[i].isTimeRunning)
                THEN stopTimeTracking(PreTaskStore, last.id, last.at, last.full)
                ELSE PreTaskStore
          [] OTHER -> PreTaskStore

\* C24: no subscriber of tasks$ receives a snapshot in which an operation is
\* partly applied: what startTimeTracking and resetTimeTracking publish on
\* their way is the collection from before or the one they end with.
C24_AtomicSnapshots ==
    (store = TASKS_KEY /\ last.op \in {"startTimeTracking", "resetTimeTracking"}) =>
        StopPhase.subject \in {pre.tasks, tasksSubject}

----------------------------------------------------------------------------
(* C27 *)

\* C27: whenever a call of queryWorkItems has emitted its result or its error
\* and no request is in flight, loading$ is false.
C27_LoadingEnds ==
    (/\ store = ADO
     /\ last.op \in {"queryWorkItems", "wiql", "workitems"}
     /\ subscriber.state \in {"next", "error"}
     /\ Inflight(http) = {}) => ~adoService.loading

----------------------------------------------------------------------------
(* AdoWorkItemsComponent.getSprintInfo: a pure function of the work item,  *)
(* the clock and the local time zone.  Local days are numbered; the zone's *)
(* clocks change by zone.shift at the start of day zone.day (0: never).    *)

MaxSprintDay == 19
SprintToday == 2

SPRINTS == "sprint-info"

HourMs == DayMs \div 24

\* new Date(year, month, day): the instant of the local midnight of a day
Midnight(day) ==
    day * DayMs + (IF zone.day # 0 /\ day >= zone.day THEN zone.shift ELSE 0)

\* the local day an instant falls on
LocalDay(ms) ==
    CHOOSE day \in 0..(MaxSprintDay + 2) : Midnight(day) <= ms /\ ms < Midnight(day + 1)

\* date.setHours(0, 0, 0, 0)
setHoursMidnight(ms) == Midnight(LocalDay(ms))

\* Math.ceil(a / b) for b > 0
Ceil(a, b) == 0 - ((0 - a) \div b)

\* a work item by the sprint dates getSprintInfo derives from it
SprintItem(startDate, endDate) ==
    [id |-> 1, startDate |-> startDate, endDate |-> endDate]

SprintDates == {Null} \cup {DateOf(Midnight(day)) : day \in 0..MaxSprintDay}

Zones ==
    {NoClockChange} \cup
    [day : {SprintToday, SprintToday + 1, SprintToday + 2}, shift : {0 - HourMs, HourMs}]

\* the if-chain that sets urgencyLevel
Urgency(future, daysRemaining) ==
    IF future THEN "future"
    ELSE IF daysRemaining < 0 THEN "overdue"
    ELSE IF daysRemaining <= 2 THEN "critical"
    ELSE IF daysRemaining <= 6 THEN "warning"
    ELSE IF daysRemaining <= 14 THEN "current"
    ELSE "none"

getSprintInfo(workItem, clock) ==
    IF ~Truthy(workItem.endDate)
    THEN [startDate |-> workItem.startDate, endDate |-> Null,
          daysRemaining |-> Null, urgencyLevel |-> "none"]
    ELSE LET today == setHoursMidnight(clock)
             endDateNormalized == setHoursMidnight(workItem.endDate.v[1])
             diffTime == endDateNormalized - today
             daysRemaining == Ceil(diffTime, DayMs)
             future == /\ Truthy(workItem.startDate)
                       /\ today < setHoursMidnight(workItem.startDate.v[1])
         IN  [startDate |-> workItem.startDate, endDate |-> workItem.endDate,
              daysRemaining |-> Num(daysRemaining),
              urgencyLevel |-> Urgency(future, daysRemaining)]

InitSprint ==
    /\ store = SPRINTS
    /\ zone \in Zones
    /\ now \in {Midnight(SprintToday) + ms : ms \in {0, TickMs}}
    /\ widget \in {[WidgetConstructed EXCEPT !.workItems = <<SprintItem(startDate, endDate)>>] :
                      startDate \in {d \in SprintDates : d = Null \/ d.v[1] <= Midnight(SprintToday + 2)},
                      endDate \in SprintDates}
    /\ tasksSubject = <<>>
    /\ coworkersSubject = <<>>
    /\ localStorage = [k \in {TASKS_KEY} |-> NoItem]
    /\ issued = {}
    /\ adoService = AdoConstructed
    /\ calendarService = CalendarConstructed
    /\ gitHubAIService = GitHubAIConstructed
    /\ http = <<>>
    /\ subscriber = NotSubscribed
    /\ summary = SummaryConstructed
    /\ outlookCalendar = OutlookCalendarConstructed
    /\ chat = ChatConstructed
    /\ teams = TeamsConstructed
    /\ pre = <<>>
    /\ last = [op |-> "constructor", at |-> now, result |-> <<>>]
    /\ calls = 0

\* the template asks for the sprint of a work item
GetSprintInfo ==
    /\ store = SPRINTS
    /\ \E i \in DOMAIN widget.workItems :
          last' = [op |-> "getSprintInfo", at |-> now,
                   result |-> getSprintInfo(widget.workItems[i], now)]
    /\ now' \in {now, now + TickMs}
    /\ now' < Midnight(SprintToday + 1)
    /\ UNCHANGED <<tasksSubject, coworkersSubject, localStorage, store, issued,
                   pre, calls, remote>>

NextSprint == GetSprintInfo

SpecSprint == InitSprint /\ [][NextSprint]_vars

\* whole days from the day of the call to the day the sprint ends, and
\* whether the sprint starts after that day
SprintEnds == widget.workItems[1].endDate # Null
DaysLeft == LocalDay(widget.workItems[1].endDate.v[1]) - LocalDay(last.at)
NotStarted ==
    /\ widget.workItems[1].startDate # Null
    /\ LocalDay(widget.workItems[1].startDate.v[1]) > LocalDay(last.at)

\* C22: getSprintInfo classifies by the whole days d left until the end date:
\* a start date after today gives 'future' whatever d is; otherwise d < 0 is
\* 'overdue', 0..2 'critical', 3..6 'warning', 7..14 'current', more 'none'.
C22_SprintUrgency ==
    (store = SPRINTS /\ last.op = "getSprintInfo" /\ SprintEnds) =>
        last.result.urgencyLevel =
            (IF NotStarted THEN "future"
             ELSE IF DaysLeft < 0 THEN "overdue"
             ELSE IF DaysLeft <= 2 THEN "critical"
             ELSE IF DaysLeft <= 6 THEN "warning"
             ELSE IF DaysLeft <= 14 THEN "current"
             ELSE "none")

----------------------------------------------------------------------------
(* AiPrioritySummaryComponent: waiting for the dashboard's data.  The wait *)
(* is the combineLatest pipeline (debounceTime, filter, take(1)); debounce *)
(* and due are the instants its debounce and the fallback timer are due.   *)

DebounceMs == 500
TimeoutMs == 10000
StepMs == 250

SUMMARY == "ai-priority-summary"

SummaryWorld == [c |-> summary, ai |-> AIWorld]

\* generateSummary, up to the subscription to GitHubAIService.sendMessage
generateSummary(x) ==
    IF x.ai.svc.personalAccessToken = ""
    THEN [x EXCEPT !.c.error = Message("GitHub AI not configured", 0),
                   !.c.loading = FALSE]
    ELSE [x EXCEPT !.c.loading = TRUE, !.c.error = Null,
                   !.c.generated = @ + 1,
                   !.ai = sendMessage(x.ai)]

\* waitForDataSources: the three sources are BehaviorSubjects, so
\* combineLatest emits at once and the debounce starts
waitForDataSources(x, clock) ==
    [x EXCEPT !.c.waitingForData = TRUE, !.c.loading = TRUE,
              !.c.wait = "subscribed", !.c.debounce = clock + DebounceMs,
              !.c.timer = "armed", !.c.due = clock + TimeoutMs]

\* ngOnInit: isConfigured is read from the service
summaryOnInit(x, clock) ==
    IF x.ai.svc.personalAccessToken = "" THEN [x EXCEPT !.c.wait = "never"]
    ELSE waitForDataSources(x, clock)

\* a source of combineLatest emits: debounceTime starts over
sourceEmitted(x, clock) ==
    IF x.c.wait = "subscribed" THEN [x EXCEPT !.c.debounce = clock + DebounceMs]
    ELSE x

\* the debounce is over: filter, take(1) and next of the subscription
debounced(x, adoLoading) ==
    IF adoLoading THEN [x EXCEPT !.c.debounce = 0]
    ELSE generateSummary(
             [x EXCEPT !.c.debounce = 0, !.c.wait = "complete",
                       !.c.waitingForData = FALSE,
                       !.c.timer = IF @ = "armed" THEN "cancelled" ELSE @])

\* the mutation of timerFired: the timer gives up without a summary
timerFiredSilently(x) ==
    [x EXCEPT !.c.timer = "fired", !.c.waitingForData = FALSE]

\* the callback of timer(10000)
timerFired(x) ==
    IF x.c.waitingForData
    THEN generateSummary([x EXCEPT !.c.timer = "fired", !.c.waitingForData = FALSE])
    ELSE [x EXCEPT !.c.timer = "fired"]

\* ngOnDestroy: destroy$ ends the wait and the timer
summaryOnDestroy(x) ==
    [x EXCEPT !.c.destroyed = TRUE,
              !.c.wait = IF @ = "subscribed" THEN "unsubscribed" ELSE @,
              !.c.debounce = 0,
              !.c.timer = IF @ = "armed" THEN "cancelled" ELSE @]

InitSummary ==
    /\ store = SUMMARY
    /\ gitHubAIService \in {GitHubAIConstructed,
                            [GitHubAIConstructed EXCEPT !.personalAccessToken = "token"]}
    /\ adoService \in {AdoConstructed, [AdoConstructed EXCEPT !.loading = TRUE]}
    /\ summary = SummaryConstructed
    /\ now = ClockStart
    /\ tasksSubject = <<>>
    /\ coworkersSubject = <<>>
    /\ localStorage = [k \in {RATE_LIMIT_KEY} |-> NoItem]
    /\ issued = {}
    /\ calendarService = CalendarConstructed
    /\ http = <<>>
    /\ subscriber = NotSubscribed
    /\ widget = WidgetConstructed
    /\ zone = NoClockChange
    /\ outlookCalendar = OutlookCalendarConstructed
    /\ chat = ChatConstructed
    /\ teams = TeamsConstructed
    /\ pre = <<>>
    /\ last = [op |-> "constructor"]
    /\ calls = 0

SummaryDone(x, name) ==
    /\ summary' = x.c
    /\ gitHubAIService' = x.ai.svc
    /\ http' = x.ai.http
    /\ subscriber' = x.ai.sub
    /\ last' = [op |-> name]
    /\ UNCHANGED <<tasksSubject, coworkersSubject, localStorage, store, issued,
                   pre, calls, calendarService, widget, zone, outlookCalendar,
                   chat, teams>>

SummaryOnInit ==
    /\ store = SUMMARY /\ summary.wait = "none" /\ ~summary.destroyed
    /\ SummaryDone(summaryOnInit(SummaryWorld, now), "ngOnInit")
    /\ UNCHANGED <<now, adoService>>

\* AdoService.loadingSubject.next(loading)
AdoLoadingEmits ==
    /\ store = SUMMARY
    /\ \E loading \in BOOLEAN :
          adoService' = [adoService EXCEPT !.loading = loading]
    /\ SummaryDone(sourceEmitted(SummaryWorld, now), "loading$")
    /\ UNCHANGED now

DebounceFires ==
    /\ store = SUMMARY
    /\ summary.wait = "subscribed" /\ summary.debounce # 0 /\ summary.debounce <= now
    /\ SummaryDone(debounced(SummaryWorld, adoService.loading), "debounced")
    /\ UNCHANGED <<now, adoService>>

TimerFires ==
    /\ store = SUMMARY
    /\ summary.timer = "armed" /\ summary.due <= now
    /\ SummaryDone(timerFired(SummaryWorld), "timer")
    /\ UNCHANGED <<now, adoService>>

SummaryOnDestroy ==
    /\ store = SUMMARY /\ ~summary.destroyed
    /\ SummaryDone(summaryOnDestroy(SummaryWorld), "ngOnDestroy")
    /\ UNCHANGED <<now, adoService>>

\* time passes from ngOnInit on, up to the next callback that is due
TimePasses ==
    /\ store = SUMMARY /\ summary.wait # "none"
    /\ now < ClockStart + TimeoutMs + 2 * DebounceMs
    /\ ~(summary.wait = "subscribed" /\ summary.debounce # 0 /\ summary.debounce <= now)
    /\ ~(summary.timer = "armed" /\ summary.due <= now)
    /\ now' = now + StepMs
    /\ UNCHANGED <<tasksSubject, coworkersSubject, localStorage, store, issued,
                   pre, last, calls, remote>>

NextSummary ==
    \/ SummaryOnInit \/ AdoLoadingEmits \/ DebounceFires \/ TimerFires
    \/ SummaryOnDestroy \/ TimePasses

SpecSummary == InitSummary /\ [][NextSummary]_vars

\* timers fire when they are due and time goes on
SpecSummaryFair ==
    /\ SpecSummary
    /\ WF_vars(TimePasses) /\ WF_vars(TimerFires) /\ WF_vars(DebounceFires)

\* C25: once the component waits for the dashboard's data, generation of the
\* summary is started, at the latest when the 10-second timer fires, also
\* when the ADO loading flag never becomes false (or the component is
\* destroyed first).
C25_GenerationStarts ==
    /\ [](summary.timer = "fired" => summary.generated > 0)
    /\ (summary.wait = "subscribed") ~> (summary.generated > 0 \/ summary.destroyed)

\* C25 (witness): the timer has fired while ADO was still loading and the
\* wait was still on, and the summary was generated.
C25_Witness ==
    /\ store = SUMMARY /\ summary.timer = "fired" /\ summary.wait = "subscribed"
    /\ adoService.loading /\ summary.generated = 1

\* C26: for one call of waitForDataSources the initial generateSummary is
\* invoked at most once, never by the timer and later by the data-ready path.
C26_GeneratedOnce == store = SUMMARY => summary.generated <= 1

----------------------------------------------------------------------------
(* OutlookCalendarComponent: the day it shows and the requests it makes.    *)
(* Days are counted from today, which is day 0; the calendar of a day is    *)
(* told from the calendar of another day by the day its events carry.       *)
MaxCalendarDay == 1
MaxRequests == 3

OUTLOOK == "outlook-calendar"

\* what Graph answers for the calendarview of a day
EventsOn(day) == <<day>>

CalendarWorld == [c |-> outlookCalendar, svc |-> calendarService,
                  http |-> http, sub |-> subscriber]

\* the subscriptions of ngOnInit copy what the service publishes
shown(x) ==
    IF x.c.subscribed THEN [x EXCEPT !.c.events = x.svc.events] ELSE x

\* getEventsForDate(this.selectedDate).subscribe(): the url names the day
loadEvents(x) ==
    LET w == getEventsForDate([svc |-> x.svc, http |-> x.http, sub |-> x.sub])
        asked == IF Len(w.http) > Len(x.http)
                 THEN [w.http EXCEPT ![Len(w.http)].ids = <<x.c.selectedDate>>]
                 ELSE w.http
    IN  shown([x EXCEPT !.svc = w.svc, !.http = asked, !.sub = w.sub])

calendarOnInit(x) ==
    LET configured == x.svc.accessToken # ""
        x1 == shown([x EXCEPT !.c.isConfigured = configured,
                              !.c.subscribed = TRUE])
    IN  IF configured THEN loadEvents(x1) ELSE x1

previousDay(x) == loadEvents([x EXCEPT !.c.selectedDate = @ - 1])
nextDay(x) == loadEvents([x EXCEPT !.c.selectedDate = @ + 1])
goToToday(x) == loadEvents([x EXCEPT !.c.selectedDate = 0])

\* map and catchError of getEventsForDate, for the request k
calendarAnswered(x, k) ==
    LET w == eventsAnswered([svc |-> x.svc, http |-> x.http, sub |-> x.sub], k,
                            EventsOn(x.http[k].ids[1]))
    IN  shown([x EXCEPT !.svc = w.svc, !.http = w.http, !.sub = w.sub])

calendarFailed(x, k, status) ==
    LET w == eventsFailed([svc |-> x.svc, http |-> x.http, sub |-> x.sub], k, status)
    IN  shown([x EXCEPT !.svc = w.svc, !.http = w.http, !.sub = w.sub])

InitCalendar ==
    /\ store = OUTLOOK
    /\ calendarService \in {CalendarConstructed,
                            [CalendarConstructed EXCEPT !.accessToken = "token"]}
    /\ adoService = AdoConstructed
    /\ gitHubAIService = GitHubAIConstructed
    /\ now = ClockStart
    /\ tasksSubject = <<>>
    /\ coworkersSubject = <<>>
    /\ localStorage = [k \in {RATE_LIMIT_KEY} |-> NoItem]
    /\ issued = {}
    /\ http = <<>>
    /\ subscriber = NotSubscribed
    /\ widget = WidgetConstructed
    /\ OthersConstructed
    /\ pre = <<>>
    /\ last = [op |-> "constructor"]
    /\ calls = 0

OutlookDone(x, name) ==
    /\ outlookCalendar' = x.c
    /\ calendarService' = x.svc
    /\ http' = x.http
    /\ subscriber' = x.sub
    /\ last' = [op |-> name]
    /\ UNCHANGED <<tasksSubject, coworkersSubject, localStorage, now, store,
                   issued, pre, calls, adoService, gitHubAIService, widget,
                   zone, summary, chat, teams>>

MayRequest == store = OUTLOOK /\ Len(http) < MaxRequests

CalendarOnInit ==
    /\ MayRequest /\ ~outlookCalendar.subscribed
    /\ OutlookDone(calendarOnInit(CalendarWorld), "ngOnInit")

PreviousDay ==
    /\ MayRequest /\ outlookCalendar.subscribed
    /\ outlookCalendar.selectedDate > 0 - MaxCalendarDay
    /\ OutlookDone(previousDay(CalendarWorld), "previousDay")

NextDay ==
    /\ MayRequest /\ outlookCalendar.subscribed
    /\ outlookCalendar.selectedDate < MaxCalendarDay
    /\ OutlookDone(nextDay(CalendarWorld), "nextDay")

GoToToday ==
    /\ MayRequest /\ outlookCalendar.subscribed
    /\ OutlookDone(goToToday(CalendarWorld), "goToToday")

\* interval(5 * 60 * 1000) of ngOnInit
RefreshEvents ==
    /\ MayRequest /\ outlookCalendar.subscribed /\ outlookCalendar.isConfigured
    /\ OutlookDone(loadEvents(CalendarWorld), "refresh")

EventsResponse ==
    /\ store = OUTLOOK
    /\ \E k \in Inflight(http) :
          \/ OutlookDone(calendarAnswered(CalendarWorld, k), "events")
          \/ \E status \in {401, 500} :
                OutlookDone(calendarFailed(CalendarWorld, k, status), "failed")

NextCalendar ==
    \/ CalendarOnInit \/ PreviousDay \/ NextDay \/ GoToToday \/ RefreshEvents
    \/ EventsResponse

SpecCalendar == InitCalendar /\ [][NextCalendar]_vars

\* C28: when events were requested for a day d1 and then for a day d2 before
\* the first response came, then once the responses have arrived, in either
\* order, events$ holds the events of d2, the day requested last.
C28_LatestDateWins ==
    (/\ store = OUTLOOK
     /\ Len(http) >= 2
     /\ Inflight(http) = {}
     /\ \A k \in DOMAIN http : http[k].state = "answered")
    => calendarService.events = EventsOn(http[Len(http)].ids[1])

----------------------------------------------------------------------------
(* GitHubAiChatComponent and AiPrioritySummaryComponent on the one          *)
(* GitHubAIService.  A request carries the number of the widget's send that *)
(* made it, and 0 when the summary made it.                                 *)
MaxAsked == 4

CHAT == "github-ai-chat"

UserMessage(send) == [role |-> "user", send |-> send]
AssistantMessage(send) == [role |-> "assistant", send |-> send]

ChatWorld == [c |-> chat, s |-> summary, ai |-> AIWorld]

\* the subscriptions of ngOnInit copy loading$ and error$ of the service
copied(x) ==
    IF x.c.subscribed
    THEN [x EXCEPT !.c.loading = x.ai.svc.loading, !.c.error = x.ai.svc.error]
    ELSE x

\* the request the service has just issued, if any, is marked with its sender
Sent(x, before, sender) ==
    IF Len(x.ai.http) > Len(before.ai.http)
    THEN [x EXCEPT !.ai.http[Len(x.ai.http)].ids = <<sender>>]
    ELSE x

chatOnInit(x) ==
    copied([x EXCEPT !.c.isConfigured = x.ai.svc.personalAccessToken # "",
                     !.c.subscribed = TRUE])

chatSendMessage(x) ==
    IF x.c.loading THEN x
    ELSE IF ~x.c.isConfigured
    THEN [x EXCEPT !.c.error = Message("Please configure your GitHub AI settings first", 0)]
    ELSE LET send == x.c.sends + 1
             x1 == [x EXCEPT !.c.messages = Append(@, UserMessage(send)),
                             !.c.sends = send, !.c.error = Null]
         IN  Sent(copied([x1 EXCEPT !.ai = sendMessage(x1.ai)]), x, send)

\* next and error of the widget's subscription
chatNext(x, send) == [x EXCEPT !.c.messages = Append(@, AssistantMessage(send))]
chatErrored(x, message) ==
    [x EXCEPT !.c.error = message,
              !.c.messages = SubSeq(@, 1, Len(@) - 1)]

\* the summary asks the service: generateSummary
summarySends(x) ==
    LET g == generateSummary([c |-> x.s, ai |-> x.ai])
    IN  Sent(copied([x EXCEPT !.s = g.c, !.ai = g.ai]), x, 0)

\* next and error of the summary's subscription
summaryNext(x) == [x EXCEPT !.s.loading = FALSE]
summaryErrored(x, message) == [x EXCEPT !.s.error = message, !.s.loading = FALSE]

\* the response to request k has gone through the service: it reaches the
\* subscriber that sent the request
delivered(x, k, ai) ==
    LET x1 == copied([x EXCEPT !.ai = ai])
        sender == x.ai.http[k].ids[1]
    IN  IF ai.sub.state = "next"
        THEN IF sender = 0 THEN summaryNext(x1) ELSE chatNext(x1, sender)
        ELSE IF sender = 0 THEN summaryErrored(x1, ai.sub.error)
                           ELSE chatErrored(x1, ai.sub.error)

InitChat ==
    /\ store = CHAT
    /\ gitHubAIService \in {GitHubAIConstructed,
                            [GitHubAIConstructed EXCEPT !.personalAccessToken = "token"]}
    /\ adoService = AdoConstructed
    /\ calendarService = CalendarConstructed
    /\ now = ClockStart
    /\ tasksSubject = <<>>
    /\ coworkersSubject = <<>>
    /\ localStorage = [k \in {RATE_LIMIT_KEY} |-> NoItem]
    /\ issued = {}
    /\ http = <<>>
    /\ subscriber = NotSubscribed
    /\ widget = WidgetConstructed
    /\ OthersConstructed
    /\ pre = <<>>
    /\ last = [op |-> "constructor"]
    /\ calls = 0

ChatDone(x, op) ==
    /\ chat' = x.c
    /\ summary' = x.s
    /\ gitHubAIService' = x.ai.svc
    /\ http' = x.ai.http
    /\ subscriber' = x.ai.sub
    /\ localStorage' = x.ai.ls
    /\ pre' = chat.messages
    /\ last' = op
    /\ UNCHANGED <<tasksSubject, coworkersSubject, now, store, issued, calls,
                   adoService, calendarService, widget, zone, outlookCalendar,
                   teams>>

ChatOnInit ==
    /\ store = CHAT /\ ~chat.subscribed
    /\ ChatDone(chatOnInit(ChatWorld), [op |-> "ngOnInit"])

ChatSendMessage ==
    /\ store = CHAT /\ chat.subscribed /\ Len(http) < MaxAsked
    /\ ChatDone(chatSendMessage(ChatWorld), [op |-> "sendMessage"])

GenerateSummary ==
    /\ store = CHAT /\ Len(http) < MaxAsked
    /\ ChatDone(summarySends(ChatWorld), [op |-> "generateSummary"])

AIResponse ==
    /\ store = CHAT
    /\ \E k \in Inflight(http) :
          \/ ChatDone(delivered(ChatWorld, k,
                                chatAnswered(AIWorld, k, NoHeaders, TRUE, FALSE)),
                      [op |-> "answered", sender |-> http[k].ids[1]])
          \/ \E status \in {429, 500} :
                ChatDone(delivered(ChatWorld, k,
                                   chatFailed(AIWorld, k, status, NoHeaders, FALSE)),
                         [op |-> "failed", sender |-> http[k].ids[1]])

NextChat == ChatOnInit \/ ChatSendMessage \/ GenerateSummary \/ AIResponse

SpecChat == InitChat /\ [][NextChat]_vars

\* the sends of the widget that wait for their response
WidgetSendsInFlight == {k \in Inflight(http) : http[k].ids[1] > 0}

\* C29: when a send of the chat widget fails, the message taken out of the
\* conversation is the user message of that send, and no two sends of the
\* widget are in flight together, also while the summary uses the service.
C29_FailedSendRemoved ==
    store = CHAT =>
       /\ Cardinality(WidgetSendsInFlight) <= 1
       /\ (last.op = "failed" /\ last.sender > 0) =>
             chat.messages = SelectSeq(pre, LAMBDA m : m # UserMessage(last.sender))

----------------------------------------------------------------------------
(* MicrosoftTeamsService and the Teams form of CoworkerTimezonesComponent.  *)
(* No coworker has an email address, so refreshTeamsPresence asks nothing.  *)
MaxTests == 2

TEAMS == "ms-teams"
TOKEN_STORAGE_KEY == "ms-teams-token"

\* what the user pastes into the token field, as trim() leaves it
PastedTokens == {"", "a", "b"}

TeamsWorld == [t |-> teams, ls |-> localStorage, http |-> http]

\* localStorage.getItem(TOKEN_STORAGE_KEY)
StoredToken(ls) ==
    IF ls[TOKEN_STORAGE_KEY] = NoItem THEN Null ELSE ls[TOKEN_STORAGE_KEY]

loadToken(ls) == IF Truthy(StoredToken(ls)) THEN StoredToken(ls) ELSE Null

setAccessToken(x, token) ==
    [x EXCEPT !.ls = SetItem(@, TOKEN_STORAGE_KEY, Str(token)),
              !.t.accessToken = Str(token)]

clearAccessToken(x) ==
    [x EXCEPT !.ls = SetItem(@, TOKEN_STORAGE_KEY, NoItem),
              !.t.accessToken = Null]

saveTeamsToken(x) ==
    IF x.t.teamsAccessToken = "" THEN x
    ELSE [setAccessToken(x, x.t.teamsAccessToken) EXCEPT !.t.teamsAccessToken = ""]

disconnectTeams(x, confirmed) == IF confirmed THEN clearAccessToken(x) ELSE x

testMyPresence(x) ==
    IF x.t.teamsAccessToken = "" THEN x
    ELSE [x EXCEPT !.t.originals = Append(@, x.t.accessToken),
                   !.t.accessToken = Str(x.t.teamsAccessToken),
                   !.http = Append(@, Request("presence", <<>>))]

\* next and error of testMyPresence: both put originalToken back
presenceAnswered(x, k) ==
    [x EXCEPT !.http = Answer(@, k, <<>>), !.t.accessToken = x.t.originals[k]]
presenceFailed(x, k, status) ==
    [x EXCEPT !.http = Fail(@, k, status), !.t.accessToken = x.t.originals[k]]

InitTeams ==
    /\ store = TEAMS
    /\ localStorage \in {[k \in {TOKEN_STORAGE_KEY} |-> v] : v \in {NoItem, Str("a")}}
    /\ teams = [TeamsConstructed EXCEPT !.accessToken = loadToken(localStorage)]
    /\ zone = NoClockChange
    /\ summary = SummaryConstructed
    /\ outlookCalendar = OutlookCalendarConstructed
    /\ chat = ChatConstructed
    /\ adoService = AdoConstructed
    /\ calendarService = CalendarConstructed
    /\ gitHubAIService = GitHubAIConstructed
    /\ now = ClockStart
    /\ tasksSubject = <<>>
    /\ coworkersSubject = <<>>
    /\ issued = {}
    /\ http = <<>>
    /\ subscriber = NotSubscribed
    /\ widget = WidgetConstructed
    /\ pre = <<>>
    /\ last = [op |-> "constructor"]
    /\ calls = 0

TeamsDone(x, name) ==
    /\ teams' = x.t
    /\ localStorage' = x.ls
    /\ http' = x.http
    /\ last' = [op |-> name]
    /\ UNCHANGED <<tasksSubject, coworkersSubject, now, store, issued, pre, calls,
                   adoService, calendarService, gitHubAIService, subscriber,
                   widget, zone, summary, outlookCalendar, chat>>

\* the user edits the token field
PasteToken ==
    /\ store = TEAMS
    /\ \E text \in PastedTokens :
          TeamsDone([TeamsWorld EXCEPT !.t.teamsAccessToken = text], "input")

SaveTeamsToken ==
    /\ store = TEAMS
    /\ TeamsDone(saveTeamsToken(TeamsWorld), "saveTeamsToken")

DisconnectTeams ==
    /\ store = TEAMS
    /\ \E confirmed \in BOOLEAN :
          TeamsDone(disconnectTeams(TeamsWorld, confirmed), "disconnectTeams")

TestMyPresence ==
    /\ store = TEAMS /\ Len(http) < MaxTests
    /\ TeamsDone(testMyPresence(TeamsWorld), "testMyPresence")

PresenceResponse ==
    /\ store = TEAMS
    /\ \E k \in Inflight(http) :
          \/ TeamsDone(presenceAnswered(TeamsWorld, k), "presence")
          \/ \E status \in {401, 403} :
                TeamsDone(presenceFailed(TeamsWorld, k, status), "failed")

NextTeams ==
    \/ PasteToken \/ SaveTeamsToken \/ DisconnectTeams \/ TestMyPresence
    \/ PresenceResponse

SpecTeams == InitTeams /\ [][NextTeams]_vars

\* C30: whenever no testMyPresence request is in flight, the token the
\* service holds in memory is the token stored under 'ms-teams-token', null
\* when there is none, also when saveTeamsToken or disconnectTeams ran while
\* a test was in flight.
C30_TokenIsPersisted ==
    (store = TEAMS /\ Inflight(http) = {}) =>
        teams.accessToken = StoredToken(localStorage)

====
